---- MODULE Spec2Model ----
(***************************************************************************)
(* Model of the AI agent observability tool: the SQLite storage layer      *)
(* (core/database.py), the entity defaults (core/models.py) and the CrewAI *)
(* observer with its sanitization helpers                                  *)
(* (integrations/crewai_integration.py).                                   *)
(*                                                                         *)
(* Text is a sequence of one-character strings, so that the regular        *)
(* expressions, the slices and the substring tests of the code are         *)
(* computed, not assumed.                                                  *)
(***************************************************************************)
EXTENDS Integers, Sequences, FiniteSets, TLC

(***************************************************************************)
(* Characters and text helpers                                             *)
(***************************************************************************)
Digits == {"0", "1", "2", "3", "4", "5", "6", "7", "8", "9"}

UpperCase == {"A", "B", "C", "D", "E", "F", "G", "H", "I", "J", "K", "L", "M",
              "N", "O", "P", "Q", "R", "S", "T", "U", "V", "W", "X", "Y", "Z"}

LowerCase == {"a", "b", "c", "d", "e", "f", "g", "h", "i", "j", "k", "l", "m",
              "n", "o", "p", "q", "r", "s", "t", "u", "v", "w", "x", "y", "z"}

WhiteSpace == {" ", "\n", "\t"}

\* \w of the re module
IsWord(c) == c \in Digits \cup UpperCase \cup LowerCase \cup {"_"}

\* \b at the gap before position i of s (i in 1..Len(s)+1)
WordBoundary(s, i) ==
    LET before == i > 1 /\ IsWord(s[i - 1])
        after == i <= Len(s) /\ IsWord(s[i])
    IN  before # after

\* every position of s[i..j] holds a character of class
AllIn(s, i, j, class) ==
    /\ i >= 1
    /\ j <= Len(s)
    /\ \A k \in i..j : s[k] \in class

\* s[i] exists and is the character c
CharAt(s, i, c) == i >= 1 /\ i <= Len(s) /\ s[i] = c

\* the length of the longest run of characters of class starting at s[i]
RunLen(s, i, class) ==
    LET stops == {k \in i..(Len(s) + 1) : k = Len(s) + 1 \/ s[k] \notin class}
    IN  IF i > Len(s) THEN 0
        ELSE (CHOOSE k \in stops : \A m \in stops : k <= m) - i

\* Python slice s[:n]
Take(s, n) == IF Len(s) <= n THEN s ELSE SubSeq(s, 1, n)

\* Python "sub in s"
Contains(s, sub) ==
    \/ sub = <<>>
    \/ \E i \in 1..(Len(s) - Len(sub) + 1) :
          s[i] = sub[1] /\ SubSeq(s, i, i + Len(sub) - 1) = sub

ToLowerChar(c) ==
    CASE c = "A" -> "a" [] c = "B" -> "b" [] c = "C" -> "c" [] c = "D" -> "d"
      [] c = "E" -> "e" [] c = "F" -> "f" [] c = "G" -> "g" [] c = "H" -> "h"
      [] c = "I" -> "i" [] c = "J" -> "j" [] c = "K" -> "k" [] c = "L" -> "l"
      [] c = "M" -> "m" [] c = "N" -> "n" [] c = "O" -> "o" [] c = "P" -> "p"
      [] c = "Q" -> "q" [] c = "R" -> "r" [] c = "S" -> "s" [] c = "T" -> "t"
      [] c = "U" -> "u" [] c = "V" -> "v" [] c = "W" -> "w" [] c = "X" -> "x"
      [] c = "Y" -> "y" [] c = "Z" -> "z" [] OTHER -> c

\* str.lower()
Lower(s) == [i \in 1..Len(s) |-> ToLowerChar(s[i])]

DigitChar(d) ==
    CASE d = 0 -> "0" [] d = 1 -> "1" [] d = 2 -> "2" [] d = 3 -> "3"
      [] d = 4 -> "4" [] d = 5 -> "5" [] d = 6 -> "6" [] d = 7 -> "7"
      [] d = 8 -> "8" [] d = 9 -> "9"

RECURSIVE Decimal(_)
\* str(n) of a non-negative integer
Decimal(n) == IF n < 10 THEN <<DigitChar(n)>>
              ELSE Decimal(n \div 10) \o <<DigitChar(n % 10)>>

(***************************************************************************)
(* The texts the calls of the exploration are given                        *)
(***************************************************************************)
Clean == <<"o", "k">>
WithSSN == <<"1", "2", "3", "-", "4", "5", "-", "6", "7", "8", "9">>
Texts == {Clean, WithSSN}

TaskAnalyze == <<"A", "n", "a", "l", "y", "z", "e">>
TaskReview == <<"r", "e", "v", "i", "e", "w", " ", "1", "2", "3", "-", "4", "5", "-", "6", "7", "8", "9">>
TaskParse == <<"p", "a", "r", "s", "e">>
TaskTexts == {TaskAnalyze, TaskReview, TaskParse}

(***************************************************************************)
(* Sanitization: the six substitutions of _sanitize_ehr_content            *)
(***************************************************************************)
\* \b\d{3}-\d{2}-\d{4}\b at s[i]: the length matched, 0 for no match
MatchSSN(s, i) ==
    IF /\ WordBoundary(s, i)
       /\ AllIn(s, i, i + 2, Digits)
       /\ CharAt(s, i + 3, "-")
       /\ AllIn(s, i + 4, i + 5, Digits)
       /\ CharAt(s, i + 6, "-")
       /\ AllIn(s, i + 7, i + 10, Digits)
       /\ WordBoundary(s, i + 11)
    THEN 11 ELSE 0

\* \b\d{10,12}\b at s[i], the longest count tried first
MatchMRN(s, i) ==
    LET ok == {n \in 10..12 : /\ WordBoundary(s, i)
                              /\ AllIn(s, i, i + n - 1, Digits)
                              /\ WordBoundary(s, i + n)}
    IN  IF ok = {} THEN 0 ELSE CHOOSE n \in ok : \A m \in ok : m <= n

\* \b\d{1,2}/\d{1,2}/\d{4}\b with a month digits and b day digits
DateShape(s, i, a, b) ==
    /\ WordBoundary(s, i)
    /\ AllIn(s, i, i + a - 1, Digits)
    /\ CharAt(s, i + a, "/")
    /\ AllIn(s, i + a + 1, i + a + b, Digits)
    /\ CharAt(s, i + a + b + 1, "/")
    /\ AllIn(s, i + a + b + 2, i + a + b + 5, Digits)
    /\ WordBoundary(s, i + a + b + 6)

MatchDate(s, i) ==
    IF DateShape(s, i, 2, 2) THEN 10
    ELSE IF DateShape(s, i, 2, 1) THEN 9
    ELSE IF DateShape(s, i, 1, 2) THEN 9
    ELSE IF DateShape(s, i, 1, 1) THEN 8
    ELSE 0

\* \b[A-Z][a-z]+\s+[A-Z][a-z]+\b. Each repetition is followed by an element
\* that excludes its own class (and the last by \b, which no shorter run of
\* lower-case letters ends on), so only the longest runs can match.
MatchName(s, i) ==
    LET a == RunLen(s, i + 1, LowerCase)
        g == RunLen(s, i + a + 1, WhiteSpace)
        b == RunLen(s, i + a + g + 2, LowerCase)
    IN  IF /\ WordBoundary(s, i)
           /\ AllIn(s, i, i, UpperCase)
           /\ a >= 1
           /\ g >= 1
           /\ AllIn(s, i + a + g + 1, i + a + g + 1, UpperCase)
           /\ b >= 1
           /\ WordBoundary(s, i + a + g + 2 + b)
        THEN a + g + b + 2 ELSE 0

\* \b\d{3}-\d{3}-\d{4}\b
MatchPhone(s, i) ==
    IF /\ WordBoundary(s, i)
       /\ AllIn(s, i, i + 2, Digits)
       /\ CharAt(s, i + 3, "-")
       /\ AllIn(s, i + 4, i + 6, Digits)
       /\ CharAt(s, i + 7, "-")
       /\ AllIn(s, i + 8, i + 11, Digits)
       /\ WordBoundary(s, i + 12)
    THEN 12 ELSE 0

EmailLocal == Digits \cup UpperCase \cup LowerCase \cup {".", "_", "%", "+", "-"}

EmailDomain == Digits \cup UpperCase \cup LowerCase \cup {".", "-"}

\* the class [A-Z|a-z] of the source holds the bar as well
EmailTLD == UpperCase \cup LowerCase \cup {"|"}

\* \b[A-Za-z0-9._%+-]+@[A-Za-z0-9.-]+\.[A-Z|a-z]{2,}\b. The local part is the
\* whole run before the at sign (no shorter one is followed by it).
MatchEmail(s, i) ==
    LET a == RunLen(s, i, EmailLocal)
        dmax == RunLen(s, i + a + 1, EmailDomain)
        \* the dot that ends the domain is itself in the domain class
        ds == {d \in 1..(dmax - 1) : CharAt(s, i + a + d + 1, ".")}
        fits == {p \in ds \X (2..(Len(s) - i + 1)) :
                    /\ p[2] <= RunLen(s, i + a + p[1] + 2, EmailTLD)
                    /\ WordBoundary(s, i + a + p[1] + 2 + p[2])}
        \* greedy with backtracking: the longest domain, then the longest top level
        best == CHOOSE p \in fits : \A q \in fits :
                    \/ q[1] < p[1]
                    \/ q[1] = p[1] /\ q[2] <= p[2]
    IN  IF ~WordBoundary(s, i) \/ a = 0 \/ ~CharAt(s, i + a, "@") \/ fits = {}
        THEN 0
        ELSE a + best[1] + best[2] + 2

\* the first position from i on where a match starts (lens[j] is the length
\* matched at s[j], 0 for no match), 0 when there is none
FirstMatch(lens, i) ==
    LET starts == {j \in DOMAIN lens : j >= i /\ lens[j] > 0}
    IN  IF starts = {} THEN 0 ELSE CHOOSE k \in starts : \A m \in starts : k <= m

RECURSIVE Splice(_, _, _, _)
\* re.sub from position i on, the next match starting at s[j]: the leftmost
\* match is replaced and the scan goes on behind it
SpliceAt(lens, repl, s, i, j) ==
    IF j = 0 THEN SubSeq(s, i, Len(s))
    ELSE SubSeq(s, i, j - 1) \o repl \o Splice(lens, repl, s, j + lens[j])

Splice(lens, repl, s, i) == SpliceAt(lens, repl, s, i, FirstMatch(lens, i))

TruncatedMarker == <<".", ".", ".", "[", "T", "R", "U", "N", "C", "A", "T", "E", "D", "]">>
Redacted == <<"[", "R", "E", "D", "A", "C", "T", "E", "D", "]">>

ContentCap == 500
TaskCap == 200

\* re.sub(pattern, tag, s) for each of the six patterns
SubSSN(s) == Splice([j \in 1..Len(s) |-> MatchSSN(s, j)], <<"[", "S", "S", "N", "]">>, s, 1)
SubMRN(s) == Splice([j \in 1..Len(s) |-> MatchMRN(s, j)], <<"[", "M", "R", "N", "]">>, s, 1)
SubDate(s) == Splice([j \in 1..Len(s) |-> MatchDate(s, j)], <<"[", "D", "A", "T", "E", "]">>, s, 1)
SubName(s) == Splice([j \in 1..Len(s) |-> MatchName(s, j)], <<"[", "P", "A", "T", "I", "E", "N", "T", "_", "N", "A", "M", "E", "]">>, s, 1)
SubPhone(s) == Splice([j \in 1..Len(s) |-> MatchPhone(s, j)], <<"[", "P", "H", "O", "N", "E", "]">>, s, 1)
SubEmail(s) == Splice([j \in 1..Len(s) |-> MatchEmail(s, j)], <<"[", "E", "M", "A", "I", "L", "]">>, s, 1)

\* the six substitutions, in the order of the source
Redact(content) == SubEmail(SubPhone(SubName(SubDate(SubMRN(SubSSN(content))))))

\* a cut that sets in at the cap itself
Truncate_at_cap(r) ==
    IF Len(r) >= ContentCap THEN SubSeq(r, 1, ContentCap) \o TruncatedMarker ELSE r

\* if len(content) > 500: content[:500] + "...[TRUNCATED]"
Truncate(r) ==
    IF Len(r) > ContentCap THEN SubSeq(r, 1, ContentCap) \o TruncatedMarker ELSE r

SanitizeContent(content) ==
    IF content = <<>> THEN <<>> ELSE Truncate(Redact(content))

\* the texts of the exploration are sanitized once, not at every call
SanitizedTexts == [t \in Texts \cup TaskTexts |-> SanitizeContent(t)]

_sanitize_ehr_content(content) ==
    IF content \in DOMAIN SanitizedTexts THEN SanitizedTexts[content]
    ELSE SanitizeContent(content)

_sanitize_task_description(task) == Take(_sanitize_ehr_content(task), TaskCap)

\* as ClassifyTask, the extraction keywords being looked for first
ClassifyTask_extraction_first(task) ==
    LET task_lower == Lower(task)
    IN  IF Contains(task_lower, <<"e", "x", "t", "r", "a", "c", "t">>) \/ Contains(task_lower, <<"p", "a", "r", "s", "e">>)
            THEN "EXTRACTION"
        ELSE IF Contains(task_lower, <<"a", "n", "a", "l", "y", "z", "e">>) \/ Contains(task_lower, <<"r", "e", "v", "i", "e", "w">>)
            THEN "ANALYSIS"
        ELSE IF Contains(task_lower, <<"s", "u", "m", "m", "a", "r", "i", "z", "e">>) \/ Contains(task_lower, <<"s", "u", "m", "m", "a", "r", "y">>)
            THEN "SUMMARIZATION"
        ELSE IF Contains(task_lower, <<"v", "a", "l", "i", "d", "a", "t", "e">>) \/ Contains(task_lower, <<"c", "h", "e", "c", "k">>)
            THEN "VALIDATION"
        ELSE "GENERAL"

ClassifyTask(task) ==
    LET task_lower == Lower(task)
    IN  IF Contains(task_lower, <<"a", "n", "a", "l", "y", "z", "e">>) \/ Contains(task_lower, <<"r", "e", "v", "i", "e", "w">>)
            THEN "ANALYSIS"
        ELSE IF Contains(task_lower, <<"e", "x", "t", "r", "a", "c", "t">>) \/ Contains(task_lower, <<"p", "a", "r", "s", "e">>)
            THEN "EXTRACTION"
        ELSE IF Contains(task_lower, <<"s", "u", "m", "m", "a", "r", "i", "z", "e">>) \/ Contains(task_lower, <<"s", "u", "m", "m", "a", "r", "y">>)
            THEN "SUMMARIZATION"
        ELSE IF Contains(task_lower, <<"v", "a", "l", "i", "d", "a", "t", "e">>) \/ Contains(task_lower, <<"c", "h", "e", "c", "k">>)
            THEN "VALIDATION"
        ELSE "GENERAL"

\* the tasks of the exploration are classified once, not at every call
ClassifiedTasks == [t \in TaskTexts |-> ClassifyTask(t)]

_classify_task(task) ==
    IF task \in DOMAIN ClassifiedTasks THEN ClassifiedTasks[task]
    ELSE ClassifyTask(task)

(***************************************************************************)
(* Values                                                                  *)
(***************************************************************************)
\* an Optional value is the empty sequence (None) or a sequence of one value
None == <<>>
Some(x) == <<x>>

\* a dict is a sequence of [key, value] pairs in insertion order; a value is
\* [type, val]: the Python type's name and the value's text
DictKeys(d) == {d[i].key : i \in 1..Len(d)}

DictGet(d, k) == d[CHOOSE i \in 1..Len(d) : d[i].key = k].value

\* d[k] = v: an existing key keeps its place
DictSet(d, k, v) ==
    IF k \in DictKeys(d)
    THEN [i \in 1..Len(d) |-> IF d[i].key = k THEN [key |-> k, value |-> v] ELSE d[i]]
    ELSE Append(d, [key |-> k, value |-> v])

\* del d[k]
DictDel(d, k) ==
    LET keep == {i \in 1..Len(d) : d[i].key # k}
        RECURSIVE pick(_)
        pick(i) == IF i > Len(d) THEN <<>>
                   ELSE IF i \in keep THEN <<d[i]>> \o pick(i + 1)
                   ELSE pick(i + 1)
    IN  pick(1)

Str(text) == [type |-> "str", val |-> text]

(***************************************************************************)
(* Storage layer (core/database.py). db is the record of the five tables,  *)
(* each a sequence of rows in insertion order. avail tells whether the     *)
(* SQLite file can be opened and written during the call.                  *)
(***************************************************************************)
Ids(table) == {table[i].id : i \in 1..Len(table)}

\* what one storage call gives its caller: the exception raised ("" for a normal
\* return), the value returned and the store it leaves
Raised(kind, db) == [raised |-> kind, ret |-> None, db |-> db]
Returned(value, db) == [raised |-> "", ret |-> Some(value), db |-> db]

\* a get_connection whose failure is swallowed
get_connection_swallowed(avail) == ""

\* sqlite3.connect or the statement fails when the store is unavailable
get_connection(avail) == IF avail THEN "" ELSE "OperationalError"

\* an INSERT OR REPLACE: the row takes the place of the one of its id
InsertOrReplace(db, table, row, avail) ==
    IF get_connection(avail) # "" THEN Raised(get_connection(avail), db)
    ELSE Returned(row.id,
                  [db EXCEPT ![table] =
                      SelectSeq(@, LAMBDA old : old.id # row.id) \o <<row>>])

\* INSERT of a row whose id is the table's PRIMARY KEY
Insert(db, table, row, avail) ==
    IF get_connection(avail) # "" THEN Raised(get_connection(avail), db)
    ELSE IF row.id \in Ids(db[table]) THEN Raised("IntegrityError", db)
    ELSE Returned(row.id, [db EXCEPT ![table] = Append(@, row)])

\* the types of the dict values json.dumps can write
JsonTypes == {"str", "int", "float", "bool", "NoneType", "list", "tuple", "dict"}

\* json.dumps(d) raises no TypeError
Serializable(d) == \A i \in 1..Len(d) : d[i].value.type \in JsonTypes

\* json.dumps(d): the JSON document, kept as the dict it denotes; JSON has
\* arrays only, so a tuple is written as a list
json_dumps(d) ==
    [i \in 1..Len(d) |->
        [key |-> d[i].key,
         value |-> IF d[i].value.type = "tuple"
                   THEN [type |-> "list", val |-> d[i].value.val]
                   ELSE d[i].value]]

\* json.loads(document): the dict the document denotes
json_loads(document) == document

\* the text sqlite3 binds for a datetime (its adapter's isoformat); a datetime
\* is counted in seconds and its text is that number's numeral
adapt_datetime(t) == Decimal(t)

\* the numeral's digit
DigitValue(c) == CHOOSE d \in 0..9 : DigitChar(d) = c

RECURSIVE Numeral(_, _)
\* the number of the numeral text, read behind the value n of the digits before
Numeral(text, n) ==
    IF text = <<>> THEN n ELSE Numeral(Tail(text), 10 * n + DigitValue(text[1]))

\* datetime.fromisoformat(text)
fromisoformat(text) == Numeral(text, 0)

\* an Optional[datetime] as bound, and as read ("... if row[...] else None")
AdaptOptional(t) == IF t = None THEN None ELSE Some(adapt_datetime(t[1]))
FromOptional(text) == IF text = None THEN None ELSE Some(fromisoformat(text[1]))

\* the values create_session binds to the row's columns (a status is the
\* value of its enum member: use_enum_values)
SessionRow(session) ==
    [id |-> session.id,
     agent_name |-> session.agent_name,
     status |-> session.status,
     start_time |-> adapt_datetime(session.start_time),
     end_time |-> AdaptOptional(session.end_time),
     configuration |-> json_dumps(session.configuration),
     metadata |-> json_dumps(session.metadata)]

\* AgentSession(...) as get_session and get_active_sessions build it of a row
SessionOf(row) ==
    [id |-> row.id,
     agent_name |-> row.agent_name,
     status |-> row.status,
     start_time |-> fromisoformat(row.start_time),
     end_time |-> FromOptional(row.end_time),
     configuration |-> json_loads(row.configuration),
     metadata |-> json_loads(row.metadata)]

\* a create_session that returns without conn.commit()
create_session_uncommitted(db, session, avail) ==
    IF get_connection(avail) # "" THEN Raised(get_connection(avail), db)
    ELSE Returned(session.id, db)

create_session(db, session, avail) ==
    IF get_connection(avail) # "" THEN Raised(get_connection(avail), db)
    ELSE IF ~Serializable(session.configuration) \/ ~Serializable(session.metadata)
    THEN Raised("TypeError", db)
    ELSE Insert(db, "agent_sessions", SessionRow(session), avail)

get_session(db, session_id, avail) ==
    IF get_connection(avail) # "" THEN Raised(get_connection(avail), db)
    ELSE LET hits == {i \in 1..Len(db.agent_sessions) :
                         db.agent_sessions[i].id = session_id}
         IN  IF hits = {} THEN [raised |-> "", ret |-> None, db |-> db]
             ELSE Returned(SessionOf(db.agent_sessions[CHOOSE i \in hits : TRUE]), db)

create_conversation(db, conversation, avail) ==
    Insert(db, "conversations",
           [conversation EXCEPT !.start_time = adapt_datetime(@),
                                !.end_time = AdaptOptional(@)],
           avail)

\* an add_message that binds the message's own id as its conversation
add_message_untied(db, message, conversation_id, avail) ==
    Insert(db, "messages",
           [id |-> message.id, conversation_id |-> message.id,
            role |-> message.role, content |-> message.content,
            timestamp |-> adapt_datetime(message.timestamp),
            metadata |-> message.metadata],
           avail)

add_message(db, message, conversation_id, avail) ==
    Insert(db, "messages",
           [id |-> message.id, conversation_id |-> conversation_id,
            role |-> message.role, content |-> message.content,
            timestamp |-> adapt_datetime(message.timestamp),
            metadata |-> message.metadata],
           avail)

add_metrics(db, metrics, avail) ==
    Insert(db, "performance_metrics",
           [metrics EXCEPT !.timestamp = adapt_datetime(@)], avail)

add_event(db, event, avail) ==
    Insert(db, "system_events", [event EXCEPT !.timestamp = adapt_datetime(@)], avail)

\* a get_active_sessions whose query has no WHERE clause
get_active_sessions_unfiltered(db, avail) ==
    IF get_connection(avail) # "" THEN Raised(get_connection(avail), db)
    ELSE Returned([i \in 1..Len(db.agent_sessions) |-> SessionOf(db.agent_sessions[i])],
                  db)

\* SELECT * FROM agent_sessions WHERE status = 'active'
get_active_sessions(db, avail) ==
    IF get_connection(avail) # "" THEN Raised(get_connection(avail), db)
    ELSE Returned(
            [i \in 1..Len(SelectSeq(db.agent_sessions,
                                    LAMBDA row : row.status = "active")) |->
                SessionOf(SelectSeq(db.agent_sessions,
                                    LAMBDA row : row.status = "active")[i])],
            db)

RECURSIVE Total(_)
\* SUM over a sequence of numbers
Total(numbers) ==
    IF numbers = <<>> THEN 0 ELSE numbers[1] + Total(Tail(numbers))

\* SUM(column): NULL over no row
SqlSum(numbers) == IF numbers = <<>> THEN None ELSE Some(Total(numbers))

\* AVG(column): NULL over no row, else the quotient sum / count, kept as the pair
SqlAvg(numbers) ==
    IF numbers = <<>> THEN None ELSE Some(<<Total(numbers), Len(numbers)>>)

\* the rows of "WHERE session_id = ?" if session_id else all rows: None and
\* the empty str are both false
MetricsOf(db, session_id) ==
    IF session_id = None \/ session_id = Some(<<>>) THEN db.performance_metrics
    ELSE SelectSeq(db.performance_metrics, LAMBDA row : row.session_id = session_id[1])

Column(rows, field) == [i \in 1..Len(rows) |-> rows[i][field]]

\* the quality scores that are not NULL
Scores(rows) ==
    Column(SelectSeq(Column(rows, "quality_score"), LAMBDA score : score # None), 1)

get_metrics_summary(db, session_id, avail) ==
    IF get_connection(avail) # "" THEN Raised(get_connection(avail), db)
    ELSE Returned(
            [total_requests |-> Len(MetricsOf(db, session_id)),
             avg_response_time |->
                SqlAvg(Column(MetricsOf(db, session_id), "response_time_ms")),
             avg_success_rate |->
                SqlAvg(Column(MetricsOf(db, session_id), "success_rate")),
             total_input_tokens |->
                SqlSum(Column(MetricsOf(db, session_id), "token_count_input")),
             total_output_tokens |->
                SqlSum(Column(MetricsOf(db, session_id), "token_count_output")),
             \* AVG leaves NULL scores out
             avg_quality_score |->
                SqlAvg(Scores(MetricsOf(db, session_id)))],
            db)

\* how many rows LIMIT ? lets through: a negative limit is no limit
Limited(n, limit) == IF limit < 0 \/ limit > n THEN n ELSE limit

RECURSIVE TextLeq(_, _)
\* a <= b as SQLite compares TEXT: byte by byte, a prefix first
TextLeq(a, b) ==
    IF a = <<>> THEN TRUE
    ELSE IF b = <<>> THEN FALSE
    ELSE IF a[1] = b[1] THEN TextLeq(Tail(a), Tail(b))
    ELSE DigitValue(a[1]) < DigitValue(b[1])

\* the orders ORDER BY timestamp DESC LIMIT ? may give: rows of one timestamp
\* come in an order SQL leaves open
RecentOrders(events, limit) ==
    {p \in [1..Limited(Len(events), limit) -> 1..Len(events)] :
        /\ \A i, j \in DOMAIN p : i < j =>
               /\ p[i] # p[j]
               /\ TextLeq(events[p[j]].timestamp, events[p[i]].timestamp)
        /\ \A m \in 1..Len(events) : \A i \in DOMAIN p :
               m \in {p[j] : j \in DOMAIN p}
                   \/ TextLeq(events[m].timestamp, events[p[i]].timestamp)}

\* SystemEvent(...) as get_recent_events builds it of a row
EventOf(row) == [row EXCEPT !.timestamp = fromisoformat(@)]

\* a get_recent_events whose query orders by timestamp ASC
get_recent_events_ascending(db, limit, order, avail) ==
    IF get_connection(avail) # "" THEN Raised(get_connection(avail), db)
    ELSE Returned([i \in DOMAIN order |->
                      EventOf(db.system_events[order[Len(order) + 1 - i]])],
                  db)

\* order is one of RecentOrders
get_recent_events(db, limit, order, avail) ==
    IF get_connection(avail) # "" THEN Raised(get_connection(avail), db)
    ELSE Returned([i \in DOMAIN order |-> EventOf(db.system_events[order[i]])], db)

(***************************************************************************)
(* Observer (integrations/crewai_integration.py). ob is the observer with  *)
(* its store: the tables, the two tracking dicts and the number of uuids   *)
(* drawn so far. Each operation gives the state it leaves, the exception   *)
(* that escapes it (None for a normal return), the value it returns and    *)
(* the effects it had, in order.                                           *)
(***************************************************************************)

ErrorMessageCap == 200
StackTraceCap == 1000
SummaryCap == 500

\* uuid.uuid4(): the n-th identifier drawn, unequal to every earlier one
Uuid4(n) == <<"u">> \o Decimal(n + 1)

\* f"crew_{crew_name}_{int(time.time())}"
CrewId(crew_name, now) == <<"c", "r", "e", "w", "_">> \o crew_name \o <<"_">> \o Decimal(now)

\* the first tracked key, in insertion order, that holds crew_name as a substring
_get_session_id(active_sessions, crew_name) ==
    LET hits == {i \in 1..Len(active_sessions) :
                     Contains(active_sessions[i].key, crew_name)}
    IN  IF hits = {} THEN None
        ELSE Some(active_sessions[CHOOSE i \in hits : \A j \in hits : i <= j].value)

\* as _sanitize_metadata, the key being compared as it is spelled
_sanitize_metadata_exact_keys(metadata) ==
    [i \in 1..Len(metadata) |->
        [key |-> metadata[i].key,
         value |->
            IF metadata[i].key \in
                  {<<"p", "a", "t", "i", "e", "n", "t", "_", "i", "d">>,
                   <<"s", "s", "n">>,
                   <<"n", "a", "m", "e">>,
                   <<"e", "m", "a", "i", "l">>,
                   <<"p", "h", "o", "n", "e">>}
            THEN Str(Redacted)
            ELSE IF metadata[i].value.type = "str"
            THEN Str(_sanitize_ehr_content(metadata[i].value.val))
            ELSE metadata[i].value]]

_sanitize_metadata(metadata) ==
    [i \in 1..Len(metadata) |->
        [key |-> metadata[i].key,
         value |->
            IF Lower(metadata[i].key) \in
                  {<<"p", "a", "t", "i", "e", "n", "t", "_", "i", "d">>,
                   <<"s", "s", "n">>,
                   <<"n", "a", "m", "e">>,
                   <<"e", "m", "a", "i", "l">>,
                   <<"p", "h", "o", "n", "e">>}
            THEN Str(Redacted)
            ELSE IF metadata[i].value.type = "str"
            THEN Str(_sanitize_ehr_content(metadata[i].value.val))
            ELSE metadata[i].value]]

\* SystemEvent(...) as _log_event and log_error build it
SystemEvent(id, session_id, event_type, message, details, now, stack_trace) ==
    [id |-> id, event_type |-> event_type, session_id |-> Some(session_id),
     conversation_id |-> None, message |-> message, details |-> details,
     timestamp |-> now, stack_trace |-> stack_trace]

\* a _log_event that files every event as a warning
_log_event_as_warning(id, session_id, event_type, message, details, now) ==
    [do |-> "add_event",
     arg |-> SystemEvent(id, session_id, "warning", message, details, now, None)]

\* the statement of _log_event: the event is built and handed to db.add_event
_log_event(id, session_id, event_type, message, details, now) ==
    [do |-> "add_event",
     arg |-> SystemEvent(id, session_id, event_type, message, details, now, None)]

\* an exception: its type's name and str() of it
Exc(type, text) == [type |-> type, text |-> text]

Outcome(ob, raised, ret, effects) ==
    [ob |-> ob, raised |-> raised, ret |-> ret, effects |-> effects]

\* return value: what a handler that was not left by an exception gives back
Returning(r, value) == IF r.raised = None THEN [r EXCEPT !.ret = value] ELSE r

\* A handler is the sequence of the statements that change or read the store
\* and the tracking dicts, in the order of the source. Each is [do, arg]: a
\* call of the storage layer, or an assignment to one of the two dicts.
Statement(do, arg) == [do |-> do, arg |-> arg]

IsStorageCall(st) == st.do \notin {"track", "remember", "untrack"}

\* the storage call of statement st
StorageCall(db, st, avail) ==
    CASE st.do = "create_session" -> create_session(db, st.arg, avail)
      [] st.do = "get_session" -> get_session(db, st.arg, avail)
      [] st.do = "create_conversation" -> create_conversation(db, st.arg, avail)
      [] st.do = "add_message" ->
            add_message(db, st.arg.message, st.arg.conversation_id, avail)
      [] st.do = "add_metrics" -> add_metrics(db, st.arg, avail)
      [] st.do = "add_event" -> add_event(db, st.arg, avail)

\* as Assign, a key that is tracked keeping the session it has
Assign_keeping_first(ob, st) ==
    CASE st.do = "track" ->
            [ob EXCEPT !.active_sessions =
                IF st.arg.key \in DictKeys(@) THEN @
                ELSE DictSet(@, st.arg.key, st.arg.value)]
      [] st.do = "remember" ->
            [ob EXCEPT !.conversation_contexts = DictSet(@, st.arg.key, st.arg.value)]
      [] st.do = "untrack" ->
            [ob EXCEPT !.active_sessions = DictDel(@, st.arg)]

\* self.active_sessions[k] = v, self.conversation_contexts[k] = v and
\* del self.active_sessions[k]
Assign(ob, st) ==
    CASE st.do = "track" ->
            [ob EXCEPT !.active_sessions = DictSet(@, st.arg.key, st.arg.value)]
      [] st.do = "remember" ->
            [ob EXCEPT !.conversation_contexts = DictSet(@, st.arg.key, st.arg.value)]
      [] st.do = "untrack" ->
            [ob EXCEPT !.active_sessions = DictDel(@, st.arg)]

\* as After, the session read being written back as an ended one
After_updating(ob, st, r) ==
    [ob EXCEPT !.db = IF st.do = "get_session" /\ r.raised = "" /\ r.ret # None
                      THEN [r.db EXCEPT !.agent_sessions =
                               [i \in 1..Len(@) |->
                                   IF @[i].id = st.arg
                                   THEN [@[i] EXCEPT !.status = "idle"]
                                   ELSE @[i]]]
                      ELSE r.db,
               !.uuids = IF st.do = "get_session" THEN @ ELSE @ + 1]

\* the state after the storage call r of statement st; the entity written was
\* built with a uuid drawn for it
After(ob, st, r) ==
    [ob EXCEPT !.db = r.db,
               !.uuids = IF st.do = "get_session" THEN @ ELSE @ + 1]

RECURSIVE Run(_, _, _, _, _)
\* as Ran, the handler going on behind a storage call that raised
Ran_continuing(ob, sts, fail, n, effects, r) ==
    Run(After(ob, sts[1], r), Tail(sts), fail, n + 1,
        IF r.raised # "" THEN effects ELSE Append(effects, sts[1].do))

\* the statements from sts[1] on, its storage call having given r: an exception
\* of the storage layer is caught nowhere and leaves the handler
Ran(ob, sts, fail, n, effects, r) ==
    IF r.raised # ""
    THEN Outcome(After(ob, sts[1], r), Some(Exc(r.raised, <<>>)), None, effects)
    ELSE Run(After(ob, sts[1], r), Tail(sts), fail, n + 1, Append(effects, sts[1].do))

\* the statements sts in order, the next storage call being the handler's
\* n-th; the fail-th finds the store unavailable
Run(ob, sts, fail, n, effects) ==
    IF sts = <<>> THEN Outcome(ob, None, None, effects)
    ELSE IF IsStorageCall(sts[1])
    THEN Ran(ob, sts, fail, n, effects, StorageCall(ob.db, sts[1], fail # n))
    ELSE Run(Assign(ob, sts[1]), Tail(sts), fail, n, Append(effects, sts[1].do))

RECURSIVE Update(_, _)
\* d.update(other)
Update(d, other) ==
    IF other = <<>> THEN d
    ELSE Update(DictSet(d, other[1].key, other[1].value), Tail(other))

AgentsKey == <<"a", "g", "e", "n", "t", "s">>

\* the entries start_crew_session adds to the sanitized metadata
Provenance(agents, tasks) ==
    <<[key |-> <<"p", "r", "o", "j", "e", "c", "t">>, value |-> Str(<<"E", "H", "R", " ", "P", "r", "o", "c", "e", "s", "s", "i", "n", "g">>)],
      [key |-> <<"a", "g", "e", "n", "t", "_", "c", "o", "u", "n", "t">>, value |-> [type |-> "int", val |-> Decimal(Len(agents))]],
      [key |-> <<"t", "a", "s", "k", "_", "c", "o", "u", "n", "t">>, value |-> [type |-> "int", val |-> Decimal(Len(tasks))]],
      [key |-> AgentsKey, value |-> [type |-> "list", val |-> agents]],
      [key |-> <<"d", "a", "t", "a", "_", "t", "y", "p", "e">>, value |-> Str(<<"E", "H", "R">>)],
      [key |-> <<"p", "r", "i", "v", "a", "c", "y", "_", "l", "e", "v", "e", "l">>, value |-> Str(<<"H", "I", "P", "A", "A", "_", "C", "O", "M", "P", "L", "I", "A", "N", "T">>)]>>

\* AgentSession(...) of start_crew_session
CrewSession(session_id, crew_name, agents, tasks, metadata, now) ==
    [id |-> session_id,
     agent_name |-> <<"C", "r", "e", "w", "A", "I", ":", " ">> \o crew_name,
     status |-> "active",
     start_time |-> now,
     end_time |-> None,
     configuration |->
        <<[key |-> <<"f", "r", "a", "m", "e", "w", "o", "r", "k">>,
           value |-> Str(<<"C", "r", "e", "w", "A", "I">>)],
          [key |-> AgentsKey, value |-> [type |-> "list", val |-> agents]],
          [key |-> <<"t", "a", "s", "k", "_", "d", "e", "s", "c", "r", "i", "p", "t", "i", "o", "n", "s">>,
           value |-> [type |-> "list",
                      val |-> [i \in 1..Len(tasks) |->
                                  _sanitize_task_description(tasks[i])]]]>>,
     metadata |-> Update(_sanitize_metadata(metadata), Provenance(agents, tasks))]

\* the statements of start_crew_session for the session id drawn; event_id
\* is the uuid drawn for the start event
\* as StartStatements, the start event being written before the dict
StartStatements_event_first(session_id, event_id, crew_name, agents, tasks, metadata, now) ==
    <<Statement("create_session",
                CrewSession(session_id, crew_name, agents, tasks, metadata, now)),
      _log_event(event_id, session_id, "info",
                 <<"S", "t", "a", "r", "t", "e", "d", " ", "C", "r", "e", "w", "A", "I", " ", "s", "e", "s", "s", "i", "o", "n", ":", " ">> \o crew_name,
                 [agents |-> agents, tasks_count |-> Len(tasks)], now),
      Statement("track", [key |-> CrewId(crew_name, now), value |-> session_id])>>

\* as StartStatements, the dict being written before the session row
StartStatements_track_first(session_id, event_id, crew_name, agents, tasks, metadata, now) ==
    <<Statement("track", [key |-> CrewId(crew_name, now), value |-> session_id]),
      Statement("create_session",
                CrewSession(session_id, crew_name, agents, tasks, metadata, now)),
      _log_event(event_id, session_id, "info",
                 <<"S", "t", "a", "r", "t", "e", "d", " ", "C", "r", "e", "w", "A", "I", " ", "s", "e", "s", "s", "i", "o", "n", ":", " ">> \o crew_name,
                 [agents |-> agents, tasks_count |-> Len(tasks)], now)>>

StartStatements(session_id, event_id, crew_name, agents, tasks, metadata, now) ==
    <<Statement("create_session",
                CrewSession(session_id, crew_name, agents, tasks, metadata, now)),
      Statement("track", [key |-> CrewId(crew_name, now), value |-> session_id]),
      _log_event(event_id, session_id, "info",
                 <<"S", "t", "a", "r", "t", "e", "d", " ", "C", "r", "e", "w", "A", "I", " ", "s", "e", "s", "s", "i", "o", "n", ":", " ">> \o crew_name,
                 [agents |-> agents, tasks_count |-> Len(tasks)], now)>>

start_crew_session(ob, crew_name, agents, tasks, metadata, now, fail) ==
    Returning(
        Run(ob,
            StartStatements(Uuid4(ob.uuids), Uuid4(ob.uuids + 1), crew_name,
                            agents, tasks, metadata, now),
            fail, 1, <<>>),
        Some(Uuid4(ob.uuids)))

\* a key built from the task's text instead of its category
ConversationKeyPerTask(session_id, agent_name, task) ==
    <<session_id, agent_name, task>>

\* f"{session_id}_{agent_name}_{category}": a uuid has a fixed length and no
\* category holds an underscore, so the key string determines the triple
ConversationKey(session_id, agent_name, task) ==
    <<session_id, agent_name, _classify_task(task)>>

\* the conversation id that _get_or_create_conversation returns
ConversationId(ob, conversation_key) ==
    IF conversation_key \in DictKeys(ob.conversation_contexts)
    THEN DictGet(ob.conversation_contexts, conversation_key)
    ELSE Uuid4(ob.uuids)

\* as _get_or_create_conversation, the id being remembered before the row is
\* written
_get_or_create_conversation_remember_first(ob, session_id, agent_name, task, now) ==
    IF ConversationKey(session_id, agent_name, task)
           \in DictKeys(ob.conversation_contexts)
    THEN <<>>
    ELSE <<Statement("remember",
                     [key |-> ConversationKey(session_id, agent_name, task),
                      value |-> Uuid4(ob.uuids)]),
           Statement("create_conversation",
                     [id |-> Uuid4(ob.uuids),
                      session_id |-> session_id,
                      start_time |-> now,
                      end_time |-> None,
                      context |-> [agent |-> agent_name,
                                   task_category |-> _classify_task(task),
                                   data_type |-> "EHR_SANITIZED"],
                      token_usage |-> <<>>])>>

\* the statements of _get_or_create_conversation: none for a key it remembers
_get_or_create_conversation(ob, session_id, agent_name, task, now) ==
    IF ConversationKey(session_id, agent_name, task)
           \in DictKeys(ob.conversation_contexts)
    THEN <<>>
    ELSE <<Statement("create_conversation",
                     [id |-> Uuid4(ob.uuids),
                      session_id |-> session_id,
                      start_time |-> now,
                      end_time |-> None,
                      context |-> [agent |-> agent_name,
                                   task_category |-> _classify_task(task),
                                   data_type |-> "EHR_SANITIZED"],
                      token_usage |-> <<>>]),
           Statement("remember",
                     [key |-> ConversationKey(session_id, agent_name, task),
                      value |-> Uuid4(ob.uuids)])>>

\* token_usage.get(k, 0) if token_usage else 0
TokenCount(token_usage, k) ==
    IF k \in DictKeys(token_usage) THEN DictGet(token_usage, k) ELSE 0

\* the two messages and the metrics of one interaction; first is the number of
\* uuids drawn before the user message's
Interaction(first, session_id, conversation_id, agent_name, task, input_data, response, execution_time_ms, token_usage, now) ==
    <<Statement("add_message",
                [conversation_id |-> conversation_id,
                 message |->
                    [id |-> Uuid4(first), role |-> "user",
                     content |-> <<"T", "a", "s", "k", ":", " ">> \o _sanitize_task_description(task)
                                    \o <<"\n", "I", "n", "p", "u", "t", ":", " ">> \o _sanitize_ehr_content(input_data),
                     timestamp |-> now,
                     metadata |-> [agent |-> agent_name,
                                   task_type |-> _classify_task(task),
                                   data_classification |-> "SANITIZED_EHR"]]]),
      Statement("add_message",
                [conversation_id |-> conversation_id,
                 message |->
                    [id |-> Uuid4(first + 1), role |-> "assistant",
                     content |-> _sanitize_ehr_content(response),
                     timestamp |-> now,
                     metadata |-> [agent |-> agent_name,
                                   execution_time_ms |-> execution_time_ms,
                                   data_classification |-> "SANITIZED_EHR"]]]),
      Statement("add_metrics",
                [id |-> Uuid4(first + 2), session_id |-> session_id,
                 conversation_id |-> Some(conversation_id),
                 response_time_ms |-> execution_time_ms,
                 token_count_input |-> TokenCount(token_usage, "input"),
                 token_count_output |-> TokenCount(token_usage, "output"),
                 success_rate |-> 1,
                 error_count |-> 0,
                 timestamp |-> now,
                 resource_usage |-> [agent |-> agent_name,
                                     task_category |-> _classify_task(task)],
                 quality_score |-> None])>>

\* log_agent_interaction for the session id found; create is what
\* _get_or_create_conversation does first
LogInSession(ob, session_id, create, agent_name, task, input_data, response, execution_time_ms, token_usage, now, fail) ==
    Run(ob,
        create \o Interaction(ob.uuids + (IF create = <<>> THEN 0 ELSE 1), session_id,
                              ConversationId(ob, ConversationKey(session_id, agent_name, task)),
                              agent_name, task, input_data, response,
                              execution_time_ms, token_usage, now),
        fail, 1, <<>>)

log_agent_interaction(ob, crew_name, agent_name, task, input_data, response, execution_time_ms, token_usage, now, fail) ==
    LET session_id == _get_session_id(ob.active_sessions, crew_name)
    IN  IF session_id = None THEN Outcome(ob, None, None, <<>>)
        ELSE LogInSession(ob, session_id[1],
                          _get_or_create_conversation(ob, session_id[1], agent_name,
                                                      task, now),
                          agent_name, task, input_data, response, execution_time_ms,
                          token_usage, now, fail)

log_error(ob, crew_name, agent_name, error, context, now, fail) ==
    LET session_id == _get_session_id(ob.active_sessions, crew_name)
    IN  IF session_id = None THEN Outcome(ob, None, None, <<>>)
        ELSE Run(ob,
                 <<Statement("add_event",
                             SystemEvent(Uuid4(ob.uuids), session_id[1], "error",
                                         <<"E", "r", "r", "o", "r", " ", "i", "n", " ", "a", "g", "e", "n", "t", " ">> \o agent_name \o <<":", " ">>
                                            \o Take(error.text, ErrorMessageCap)
                                            \o <<".", ".", ".">>,
                                         [agent |-> agent_name,
                                          error_type |-> error.type,
                                          context |-> _sanitize_metadata(context)],
                                         now,
                                         Some(Take(error.text, StackTraceCap))))>>,
                 fail, 1, <<>>)

\* as end_crew_session, the completion being filed as info whatever success is
end_crew_session_always_info(ob, crew_name, success, summary, now, fail) ==
    LET session_id == _get_session_id(ob.active_sessions, crew_name)
        crew_id == CrewId(crew_name, now)
    IN  IF session_id = None THEN Outcome(ob, None, None, <<>>)
        ELSE Run(ob,
                 <<Statement("get_session", session_id[1]),
                   _log_event(Uuid4(ob.uuids), session_id[1], "info",
                              <<"C", "o", "m", "p", "l", "e", "t", "e", "d", " ", "C", "r", "e", "w", "A", "I", " ", "s", "e", "s", "s", "i", "o", "n", ":", " ">> \o crew_name,
                              [success |-> success,
                               summary |-> Take(_sanitize_ehr_content(summary),
                                                SummaryCap)],
                              now)>>
                 \o (IF crew_id \in DictKeys(ob.active_sessions)
                     THEN <<Statement("untrack", crew_id)>>
                     ELSE <<>>),
                 fail, 1, <<>>)

\* the session read is changed in memory only (status, end_time); the entry is
\* deleted under the key built from the name and the time of this call
end_crew_session(ob, crew_name, success, summary, now, fail) ==
    LET session_id == _get_session_id(ob.active_sessions, crew_name)
        crew_id == CrewId(crew_name, now)
    IN  IF session_id = None THEN Outcome(ob, None, None, <<>>)
        ELSE Run(ob,
                 <<Statement("get_session", session_id[1]),
                   _log_event(Uuid4(ob.uuids), session_id[1],
                              IF success THEN "info" ELSE "error",
                              <<"C", "o", "m", "p", "l", "e", "t", "e", "d", " ", "C", "r", "e", "w", "A", "I", " ", "s", "e", "s", "s", "i", "o", "n", ":", " ">> \o crew_name,
                              [success |-> success,
                               summary |-> Take(_sanitize_ehr_content(summary),
                                                SummaryCap)],
                              now)>>
                 \o (IF crew_id \in DictKeys(ob.active_sessions)
                     THEN <<Statement("untrack", crew_id)>>
                     ELSE <<>>),
                 fail, 1, <<>>)

\* except Exception as e: observer.log_error(...); raise. r is what log_error
\* gave: an exception that leaves it replaces e
Reraise(exc, r) ==
    Outcome(r.ob, IF r.raised # None THEN r.raised ELSE Some(exc), None,
            <<"log_error">> \o r.effects)

\* with monitor_crewai_task(...): work. work is None when the body completes,
\* or the exception it raises with is_exception telling whether its class
\* derives from Exception
monitor_crewai_task(ob, crew_name, agent_name, task, work, elapsed_ms, now, fail) ==
    IF work = None THEN Outcome(ob, None, None, <<>>)
    ELSE IF ~work[1].is_exception THEN Outcome(ob, Some(work[1].exc), None, <<>>)
    ELSE Reraise(work[1].exc,
                 log_error(ob, crew_name, agent_name, work[1].exc,
                           <<[key |-> <<"e", "x", "e", "c", "u", "t", "i", "o", "n", "_", "t", "i", "m", "e", "_", "m", "s">>,
                              value |-> [type |-> "float", val |-> Decimal(elapsed_ms)]]>>,
                           now, fail))

(***************************************************************************)
(* State: the five tables of the store, the observer's two tracking dicts, *)
(* the count of uuids drawn, the second last read from the clock, the crew *)
(* names start_crew_session was called with, and what the last call was    *)
(* and gave its caller.                                                    *)
(***************************************************************************)
VARIABLES agent_sessions, conversations, messages, performance_metrics,
          system_events, active_sessions, conversation_contexts, uuids, clock,
          calls, failures, started, created, threads, last

vars == <<agent_sessions, conversations, messages, performance_metrics,
          system_events, active_sessions, conversation_contexts, uuids, clock,
          calls, failures, started, created, threads, last>>

store == <<agent_sessions, conversations, messages, performance_metrics,
           system_events>>

tracking == <<active_sessions, conversation_contexts>>

\* bounds of the exploration
MaxCalls == 3
MaxTicks == 1
MaxFailures == 1
MaxOps == 3
MaxMixed == 2

\* inputs of the calls
CrewAB == <<"a", "b">>
CrewB == <<"b">>
CrewNames == {CrewAB, CrewB}

AgentX == <<"x">>
AgentY == <<"y">>
AgentNames == {AgentX, AgentY}

\* what start_crew_session is called with
Starts ==
    {[crew_name |-> CrewAB, agents |-> <<AgentX>>, tasks |-> <<TaskAnalyze>>,
      metadata |-> <<>>],
     [crew_name |-> CrewB, agents |-> <<AgentX, AgentY>>, tasks |-> <<TaskReview, TaskParse>>,
      metadata |-> <<[key |-> <<"S", "S", "N">>, value |-> Str(WithSSN)],
                     [key |-> <<"n", "o", "t", "e">>, value |-> Str(WithSSN)],
                     [key |-> <<"d", "a", "t", "a", "_", "s", "i", "z", "e">>, value |-> [type |-> "int", val |-> <<"7">>]]>>]}

\* what log_agent_interaction is called with
Interactions ==
    {[agent_name |-> AgentX, task |-> TaskAnalyze, input_data |-> Clean,
      response |-> WithSSN, execution_time_ms |-> 120, token_usage |-> <<>>],
     [agent_name |-> AgentX, task |-> TaskReview, input_data |-> WithSSN,
      response |-> Clean, execution_time_ms |-> 80,
      token_usage |-> <<[key |-> "input", value |-> 150],
                        [key |-> "output", value |-> 50]>>],
     [agent_name |-> AgentY, task |-> TaskParse, input_data |-> WithSSN,
      response |-> Clean, execution_time_ms |-> 80,
      token_usage |-> <<[key |-> "input", value |-> 150]>>]}

\* what log_error is called with
Failures ==
    {[crew_name |-> CrewAB, agent_name |-> AgentX,
      error |-> Exc("ValueError", WithSSN),
      context |-> <<[key |-> <<"n", "o", "t", "e">>, value |-> Str(WithSSN)]>>],
     [crew_name |-> CrewB, agent_name |-> AgentY,
      error |-> Exc("KeyError", Clean), context |-> <<>>]}

\* what end_crew_session is called with
Endings == {[success |-> TRUE, summary |-> Clean],
            [success |-> FALSE, summary |-> WithSSN]}

\* what the body of a monitored task does
Works == {None,
          Some([exc |-> Exc("ValueError", WithSSN), is_exception |-> TRUE]),
          Some([exc |-> Exc("KeyboardInterrupt", <<>>), is_exception |-> FALSE])}

\* which storage call of a handler finds the store unavailable: none (0), or
\* one of its n, while the exploration's failures last
Fails(n) == IF failures < MaxFailures THEN 0..n ELSE {0}

Db == [agent_sessions |-> agent_sessions,
       conversations |-> conversations,
       messages |-> messages,
       performance_metrics |-> performance_metrics,
       system_events |-> system_events]

Observer == [db |-> Db,
             active_sessions |-> active_sessions,
             conversation_contexts |-> conversation_contexts,
             uuids |-> uuids]

\* the store a storage call leaves
Stores(db) ==
    /\ agent_sessions' = db.agent_sessions
    /\ conversations' = db.conversations
    /\ messages' = db.messages
    /\ performance_metrics' = db.performance_metrics
    /\ system_events' = db.system_events

\* the seconds a call that reads time.time() may read: the one last read, or
\* the next (time is followed from the first tracked session on: before it the
\* clock's value enters no key)
Nows ==
    IF active_sessions # <<>> /\ clock < 1700000000 + MaxTicks
    THEN {clock, clock + 1} ELSE {clock}

\* the call, made in the second now, leaves the state of its outcome r
Leaves(r, now) ==
    /\ Stores(r.ob.db)
    /\ active_sessions' = r.ob.active_sessions
    /\ conversation_contexts' = r.ob.conversation_contexts
    /\ uuids' = r.ob.uuids
    /\ calls' = calls + 1
    /\ failures' = IF r.raised # None /\ r.raised[1].type = "OperationalError"
                   THEN failures + 1 ELSE failures
    /\ clock' = now
    /\ UNCHANGED <<created, threads>>

\* the call op with its arguments args, the session id its crew name resolves
\* to before the call, and its outcome r
Call(op, crew_name, args, r) ==
    [op |-> op, crew_name |-> crew_name, args |-> args,
     resolved |-> _get_session_id(active_sessions, crew_name),
     raised |-> r.raised, ret |-> r.ret, effects |-> r.effects]

Init ==
    /\ agent_sessions = <<>>
    /\ conversations = <<>>
    /\ messages = <<>>
    /\ performance_metrics = <<>>
    /\ system_events = <<>>
    /\ active_sessions = <<>>
    /\ conversation_contexts = <<>>
    /\ uuids = 0
    /\ clock = 1700000000
    /\ calls = 0
    /\ failures = 0
    /\ started = {}
    /\ created = {}
    /\ threads = [of |-> <<>>, tracked |-> <<>>]
    /\ last = [op |-> "init", crew_name |-> <<>>, args |-> None, resolved |-> None,
               raised |-> None, ret |-> None, effects |-> <<>>]

StartSession ==
    /\ calls < MaxCalls
    /\ \E a \in Starts, fail \in Fails(2), now \in Nows :
          \E r \in {start_crew_session(Observer, a.crew_name, a.agents, a.tasks,
                                      a.metadata, now, fail)} :
              /\ Leaves(r, now)
              /\ started' = started \cup {a.crew_name}
              /\ last' = Call("start_crew_session", a.crew_name, a, r)

LogInteraction ==
    /\ calls < MaxCalls
    /\ \E crew_name \in CrewNames, a \in Interactions, fail \in Fails(4) :
          \E r \in {log_agent_interaction(Observer, crew_name, a.agent_name, a.task,
                                         a.input_data, a.response,
                                         a.execution_time_ms, a.token_usage,
                                         clock, fail)} :
              /\ Leaves(r, clock)
              /\ last' = Call("log_agent_interaction", crew_name, a, r)
    /\ UNCHANGED started

LogError ==
    /\ calls < MaxCalls
    /\ \E a \in Failures, fail \in Fails(1) :
          \E r \in {log_error(Observer, a.crew_name, a.agent_name, a.error,
                             a.context, clock, fail)} :
              /\ Leaves(r, clock)
              /\ last' = Call("log_error", a.crew_name, a, r)
    /\ UNCHANGED started

EndSession ==
    /\ calls < MaxCalls
    /\ \E crew_name \in CrewNames, a \in Endings, fail \in Fails(2), now \in Nows :
          \E r \in {end_crew_session(Observer, crew_name, a.success, a.summary,
                                    now, fail)} :
              /\ Leaves(r, now)
              /\ last' = Call("end_crew_session", crew_name, a, r)
    /\ UNCHANGED started

MonitorTask ==
    /\ calls < MaxCalls
    /\ \E crew_name \in CrewNames, work \in Works, fail \in Fails(1) :
          \E r \in {monitor_crewai_task(Observer, crew_name, AgentX, TaskAnalyze,
                                       work, 100, clock, fail)} :
              /\ Leaves(r, clock)
              /\ last' = Call("monitor_crewai_task", crew_name, work, r)
    /\ UNCHANGED started

Next ==
    \/ StartSession
    \/ LogInteraction
    \/ LogError
    \/ EndSession
    \/ MonitorTask

Spec == Init /\ [][Next]_vars

(***************************************************************************)
(* The storage layer alone: any caller's calls of core/database.py, the    *)
(* store being available or not at each.                                   *)
(***************************************************************************)
\* ids of rows; the empty str is an id no row of the exploration has
DbIds == {<<"1">>, <<"2">>}

\* AgentSession(...)
Session(id, status, start_time, end_time, configuration, metadata) ==
    [id |-> id, agent_name |-> AgentX, status |-> status,
     start_time |-> start_time, end_time |-> end_time,
     configuration |-> configuration, metadata |-> metadata]

\* the sessions create_session is called with: of every status, their dicts
\* empty or holding a text, a list, a tuple, or a datetime (which json.dumps
\* refuses)
Sessions ==
    {Session(<<"1">>, "active", 1700000000, None, <<>>, <<>>),
     Session(<<"1">>, "idle", 1700000000, Some(1700000001),
             <<[key |-> AgentsKey, value |-> [type |-> "list", val |-> <<AgentX, AgentY>>]]>>,
             <<[key |-> <<"n", "o", "t", "e">>, value |-> Str(Clean)]>>),
     Session(<<"2">>, "error", 1700000001, None,
             <<[key |-> AgentsKey, value |-> [type |-> "tuple", val |-> <<AgentX, AgentY>>]]>>,
             <<>>),
     Session(<<"2">>, "offline", 1700000000, Some(1700000001), <<>>, <<>>),
     Session(<<"2">>, "active", 1700000001, None, <<>>,
             <<[key |-> <<"n", "o", "t", "e">>, value |-> Str(Clean)]>>),
     Session(<<"1">>, "active", 1700000000, None, <<>>,
             <<[key |-> <<"w", "h", "e", "n">>,
                value |-> [type |-> "datetime", val |-> Decimal(1700000000)]]>>)}

ConversationRows ==
    {[id |-> i, session_id |-> <<"1">>, start_time |-> 1700000000, end_time |-> None,
      context |-> <<>>, token_usage |-> <<>>] : i \in DbIds}

MessageRows ==
    {[id |-> i, role |-> "user", content |-> Clean, timestamp |-> 1700000000,
      metadata |-> <<>>] : i \in DbIds}

\* metrics of the session "1" and of a session whose id is the empty str
MetricsRows ==
    {[id |-> i, session_id |-> s, conversation_id |-> None,
      response_time_ms |-> 100 * Len(s), token_count_input |-> 10 + Len(s),
      token_count_output |-> IF i = <<"1">> THEN 1 ELSE 2, success_rate |-> 1,
      error_count |-> 0, timestamp |-> 1700000000, resource_usage |-> <<>>,
      quality_score |-> IF i = <<"1">> THEN None ELSE Some(1)] :
        i \in DbIds, s \in {<<>>, <<"1">>}}

EventRows ==
    {[id |-> i, event_type |-> "info", session_id |-> None,
      conversation_id |-> None, message |-> Clean, details |-> <<>>,
      timestamp |-> 1700000000 + t, stack_trace |-> None] :
        i \in DbIds, t \in {0, 1}}

Limits == {-1, 0, 1, 2}

\* the storage call op(arg), made with the store available or not, gave r;
\* created keeps the sessions that create_session returned for
DbCall(op, arg, avail, r) ==
    /\ calls' = calls + 1
    /\ Stores(r.db)
    /\ last' = [op |-> op, arg |-> arg, avail |-> avail, raised |-> r.raised,
                ret |-> r.ret]
    /\ created' = IF op = "create_session" /\ r.raised = ""
                  THEN created \cup {arg} ELSE created
    /\ UNCHANGED <<tracking, uuids, clock, failures, started, threads>>

InitDb ==
    /\ agent_sessions = <<>>
    /\ conversations = <<>>
    /\ messages = <<>>
    /\ performance_metrics = <<>>
    /\ system_events = <<>>
    /\ active_sessions = <<>>
    /\ conversation_contexts = <<>>
    /\ uuids = 0
    /\ clock = 1700000000
    /\ calls = 0
    /\ failures = 0
    /\ started = {}
    /\ created = {}
    /\ threads = [of |-> <<>>, tracked |-> <<>>]
    /\ last = [op |-> "init", arg |-> None, avail |-> TRUE, raised |-> "",
               ret |-> None]

CreateSession ==
    /\ calls < MaxOps
    /\ \E row \in Sessions, avail \in BOOLEAN :
           DbCall("create_session", row, avail, create_session(Db, row, avail))

GetSession ==
    /\ calls < MaxOps
    /\ \E id \in DbIds \cup {<<>>}, avail \in BOOLEAN :
           DbCall("get_session", id, avail, get_session(Db, id, avail))

GetActiveSessions ==
    /\ calls < MaxOps
    /\ \E avail \in BOOLEAN :
           DbCall("get_active_sessions", None, avail, get_active_sessions(Db, avail))

CreateConversation ==
    /\ calls < MaxOps
    /\ \E row \in ConversationRows, avail \in BOOLEAN :
           DbCall("create_conversation", row, avail, create_conversation(Db, row, avail))

AddMessage ==
    /\ calls < MaxOps
    /\ \E row \in MessageRows, avail \in BOOLEAN :
           DbCall("add_message", row, avail, add_message(Db, row, <<"1">>, avail))

AddMetrics ==
    /\ calls < MaxOps
    /\ \E row \in MetricsRows, avail \in BOOLEAN :
           DbCall("add_metrics", row, avail, add_metrics(Db, row, avail))

GetMetricsSummary ==
    /\ calls < MaxOps
    /\ \E session_id \in {None} \cup {Some(i) : i \in DbIds \cup {<<>>}},
          avail \in BOOLEAN :
           DbCall("get_metrics_summary", session_id, avail,
                  get_metrics_summary(Db, session_id, avail))

AddEvent ==
    /\ calls < MaxOps
    /\ \E row \in EventRows, avail \in BOOLEAN :
           DbCall("add_event", row, avail, add_event(Db, row, avail))

GetRecentEvents ==
    /\ calls < MaxOps
    /\ \E limit \in Limits, avail \in BOOLEAN :
           \E order \in RecentOrders(system_events, limit) :
               DbCall("get_recent_events", limit, avail,
                      get_recent_events(Db, limit, order, avail))

NextDb ==
    \/ CreateSession
    \/ GetSession
    \/ GetActiveSessions
    \/ CreateConversation
    \/ AddMessage
    \/ AddMetrics
    \/ GetMetricsSummary
    \/ AddEvent
    \/ GetRecentEvents

SpecDb == InitDb /\ [][NextDb]_vars

(***************************************************************************)
(* The observer and other callers of the storage layer on one store.       *)
(***************************************************************************)
\* the calls of both, while the exploration lasts
NextAll ==
    \/ calls < MaxMixed /\ StartSession
    \/ calls < MaxMixed /\ LogInteraction
    \/ calls < MaxMixed /\ LogError
    \/ calls < MaxMixed /\ EndSession
    \/ calls < MaxMixed /\ MonitorTask
    \/ calls < MaxMixed /\ CreateSession
    \/ calls < MaxMixed /\ GetSession
    \/ calls < MaxMixed /\ GetActiveSessions
    \/ calls < MaxMixed /\ CreateConversation
    \/ calls < MaxMixed /\ AddMessage
    \/ calls < MaxMixed /\ AddMetrics
    \/ calls < MaxMixed /\ GetMetricsSummary
    \/ calls < MaxMixed /\ AddEvent
    \/ calls < MaxMixed /\ GetRecentEvents

SpecAll == Init /\ [][NextAll]_vars

(***************************************************************************)
(* The sanitization helpers applied to texts and dicts of their own: the   *)
(* input is drawn at the start and the helpers are applied to it.          *)
(***************************************************************************)
\* n characters of filler: one word and a space
Pad(n) == [i \in 1..n |-> IF i = n THEN " " ELSE "x"]

\* texts with and without the shapes the substitutions look for, alone and
\* glued to a word character; each of them alone and behind the filler that
\* brings its redacted text to the two caps and one character over them
ContentTexts ==
    LET cores == {Clean, WithSSN,
                  <<"x">> \o WithSSN,
                  WithSSN \o <<"0">>,
                  <<"a", "@", "b", ".", "i", "o">>,
                  <<"a", "@", "b", ".", "i", "o">> \o <<"_">>,
                  <<"5", "5", "5", "-", "1", "2", "3", "-", "4", "5", "6", "7">>,
                  <<"A", "l", " ", "B", "o">>,
                  <<"1", "/", "2", "/", "2", "0", "2", "4">>,
                  <<"1", "2", "3", "4", "5", "6", "7", "8", "9", "0">>}
    IN  {<<>>} \cup cores
        \cup {Pad(cap - Len(Redact(c)) + over) \o c :
                 c \in cores, cap \in {TaskCap, ContentCap}, over \in {0, 1}}

\* keywords of the four categories in the order of their priority, two of each
\* in mixed case, and a word of none
TaskWords ==
    <<<<"a", "n", "a", "l", "y", "z", "e">>, <<"R", "e", "v", "i", "e", "w">>,
      <<"e", "x", "t", "r", "a", "c", "t">>, <<"P", "A", "R", "S", "E">>,
      <<"s", "u", "m", "m", "a", "r", "i", "z", "e">>, <<"S", "u", "m", "m", "a", "r", "y">>,
      <<"v", "a", "l", "i", "d", "a", "t", "e">>, <<"C", "H", "E", "C", "K">>,
      <<"d", "a", "t", "a">>>>

TaskPhrases ==
    {<<>>, <<"A", "n", "a", "l", "y", "z", "e", " ", "e", "x", "t", "r", "a", "c", "t", "e", "d", " ", "d", "a", "t", "a">>}
    \cup {TaskWords[i] \o <<" ">> \o TaskWords[j] : i, j \in 1..Len(TaskWords)}

\* the dicts of at most two entries: keys of the denylist in three spellings
\* and one outside it, values of text and of other types
MetadataDicts ==
    LET keys == {<<"S", "S", "N">>, <<"p", "a", "t", "i", "e", "n", "t", "_", "i", "d">>, <<"N", "a", "m", "e">>, <<"n", "o", "t", "e">>}
        values == {Str(Clean), Str(WithSSN), [type |-> "int", val |-> <<"7">>],
                   [type |-> "list", val |-> <<WithSSN>>]}
    IN  {<<>>}
        \cup {<<[key |-> k, value |-> v]>> : k \in keys, v \in values}
        \cup {<<[key |-> k[1], value |-> v[1]], [key |-> k[2], value |-> v[2]]>> :
                 k \in {p \in keys \X keys : p[1] # p[2]},
                 v \in values \X values}

Drawn(kind, value) ==
    /\ agent_sessions = <<>>
    /\ conversations = <<>>
    /\ messages = <<>>
    /\ performance_metrics = <<>>
    /\ system_events = <<>>
    /\ active_sessions = <<>>
    /\ conversation_contexts = <<>>
    /\ uuids = 0
    /\ clock = 1700000000
    /\ calls = 0
    /\ failures = 0
    /\ started = {}
    /\ created = {}
    /\ threads = [of |-> <<>>, tracked |-> <<>>]
    /\ last = [op |-> "input", kind |-> kind, arg |-> value, ret |-> None]

InitText ==
    \/ \E content \in ContentTexts : Drawn("content", content)
    \/ \E task \in TaskPhrases : Drawn("task", task)
    \/ \E metadata \in MetadataDicts : Drawn("metadata", metadata)

\* the helper op applied to the input drawn
Applied(op, ret) ==
    /\ last' = [last EXCEPT !.op = op, !.ret = Some(ret)]
    /\ UNCHANGED <<store, tracking, uuids, clock, calls, failures, started, created,
                 threads>>

SanitizeContentCall ==
    /\ last.kind = "content"
    /\ Applied("_sanitize_ehr_content", _sanitize_ehr_content(last.arg))

SanitizeTaskDescription ==
    /\ last.kind = "content"
    /\ Applied("_sanitize_task_description", _sanitize_task_description(last.arg))

ClassifyTaskCall ==
    /\ last.kind = "task"
    /\ Applied("_classify_task", _classify_task(last.arg))

SanitizeMetadata ==
    /\ last.kind = "metadata"
    /\ Applied("_sanitize_metadata", _sanitize_metadata(last.arg))

NextText ==
    \/ SanitizeContentCall
    \/ SanitizeTaskDescription
    \/ ClassifyTaskCall
    \/ SanitizeMetadata

SpecText == InitText /\ [][NextText]_vars

(***************************************************************************)
(* Two threads in start_crew_session on one observer. Each has drawn its   *)
(* uuids and read the time; its statements are taken one at a time, in any *)
(* order with the other's. threads.of[t].pc is the statement thread t is   *)
(* at (behind the last one when it has returned), raised tells whether an  *)
(* exception left it; threads.tracked lists the threads in the order of    *)
(* their writes to active_sessions.                                        *)
(***************************************************************************)
Thread(t, a, now) ==
    [pc |-> 1, raised |-> FALSE, start |-> a, now |-> now,
     session_id |-> Uuid4(2 * (t - 1)), event_id |-> Uuid4(2 * (t - 1) + 1)]

InitThreads ==
    /\ agent_sessions = <<>>
    /\ conversations = <<>>
    /\ messages = <<>>
    /\ performance_metrics = <<>>
    /\ system_events = <<>>
    /\ active_sessions = <<>>
    /\ conversation_contexts = <<>>
    /\ uuids = 0
    /\ clock = 1700000000
    /\ calls = 0
    /\ failures = 0
    /\ started = {}
    /\ created = {}
    /\ \E a1, a2 \in Starts, now1, now2 \in clock..(clock + MaxTicks) :
          threads = [of |-> <<Thread(1, a1, now1), Thread(2, a2, now2)>>,
                     tracked |-> <<>>]
    /\ last = [op |-> "init", crew_name |-> <<>>, args |-> None, resolved |-> None,
               raised |-> None, ret |-> None, effects |-> <<>>]

\* thread t takes its next statement
ThreadStep(t) ==
    LET th == threads.of[t]
        st == StartStatements(th.session_id, th.event_id, th.start.crew_name,
                              th.start.agents, th.start.tasks, th.start.metadata,
                              th.now)[th.pc]
    IN  /\ ~th.raised
        /\ th.pc \in 1..3
        /\ \E fail \in (IF IsStorageCall(st) THEN Fails(1) ELSE {0}) :
              \E r \in {Run(Observer, <<st>>, fail, 1, <<>>)} :
                  /\ Stores(r.ob.db)
                  /\ active_sessions' = r.ob.active_sessions
                  /\ conversation_contexts' = r.ob.conversation_contexts
                  /\ uuids' = r.ob.uuids
                  /\ failures' = IF r.raised # None THEN failures + 1 ELSE failures
                  /\ threads' = [threads EXCEPT
                        !.of[t].pc = IF r.raised # None THEN @ ELSE @ + 1,
                        !.of[t].raised = r.raised # None,
                        !.tracked = IF st.do = "track" THEN Append(@, t) ELSE @]
        /\ UNCHANGED <<clock, calls, started, created, last>>

NextThreads ==
    \/ ThreadStep(1)
    \/ ThreadStep(2)

SpecThreads == InitThreads /\ [][NextThreads]_vars

(***************************************************************************)
(* Properties. In an action formula the primed last is the call made by    *)
(* the step and the unprimed variables are the state it was made in.       *)
(***************************************************************************)
\* the conversation rows of session s, agent a and task category k
ConversationsOf(rows, s, a, k) ==
    {i \in 1..Len(rows) : /\ rows[i].session_id = s
                          /\ rows[i].context.agent = a
                          /\ rows[i].context.task_category = k}

\* table is old with the rows added behind it
Extends(table, old, added) ==
    /\ Len(table) = Len(old) + added
    /\ SubSeq(table, 1, Len(old)) = old

\* C1: a log_agent_interaction call that resolves session s, for agent a and a
\* task of category k, finds at most one conversation row of (s, a, k). If it
\* finds one it creates none, whatever the task's text. If it completes, one
\* row of (s, a, k) exists afterwards, created by this call (with session_id
\* s) exactly when none existed, and the call's two messages are appended to
\* that conversation.
C1_ConversationPerTriple ==
    [][last'.op = "log_agent_interaction" /\ last'.resolved # None =>
        LET s == last'.resolved[1]
            a == last'.args.agent_name
            k == _classify_task(last'.args.task)
            before == ConversationsOf(conversations, s, a, k)
            after == ConversationsOf(conversations', s, a, k)
            n == Len(messages)
        IN  /\ Cardinality(before) <= 1
            /\ before # {} => conversations' = conversations
            /\ last'.raised = None =>
                  /\ Cardinality(after) = 1
                  /\ Extends(conversations', conversations,
                             IF before = {} THEN 1 ELSE 0)
                  /\ Extends(messages', messages, 2)
                  /\ \A i \in after :
                        /\ messages'[n + 1].conversation_id = conversations'[i].id
                        /\ messages'[n + 2].conversation_id = conversations'[i].id
    ]_vars

\* a second interaction of the same agent, with another task of the same
\* category, has completed on the one conversation
C1_Reused ==
    /\ last.op = "log_agent_interaction"
    /\ last.raised = None
    /\ Len(conversations) = 1
    /\ Len(messages) = 4
    /\ messages[1].content # messages[3].content
    /\ messages[3].conversation_id = conversations[1].id

\* C2: a log_agent_interaction call that resolves session s and completes
\* appends exactly two messages, the user's before the assistant's, both to
\* the conversation of s, the agent and the task's category, and exactly one
\* metrics row with session_id s, that conversation and success_rate 1; it
\* writes no event and no session row.
C2_TwoMessagesOneMetrics ==
    [][last'.op = "log_agent_interaction" /\ last'.resolved # None
          /\ last'.raised = None =>
        LET s == last'.resolved[1]
            n == Len(messages)
            m == Len(performance_metrics)
            c == messages'[n + 1].conversation_id
        IN  /\ Extends(messages', messages, 2)
            /\ messages'[n + 1].role = "user"
            /\ messages'[n + 2].role = "assistant"
            /\ messages'[n + 2].conversation_id = c
            /\ \E i \in ConversationsOf(conversations', s, last'.args.agent_name,
                                        _classify_task(last'.args.task)) :
                  conversations'[i].id = c
            /\ Extends(performance_metrics', performance_metrics, 1)
            /\ performance_metrics'[m + 1].session_id = s
            /\ performance_metrics'[m + 1].conversation_id = Some(c)
            /\ performance_metrics'[m + 1].success_rate = 1
            /\ system_events' = system_events
            /\ agent_sessions' = agent_sessions
    ]_vars

\* an interaction has completed in a tracked session
C2_Logged ==
    /\ last.op = "log_agent_interaction"
    /\ last.resolved # None
    /\ last.raised = None
    /\ Len(messages) = 2
    /\ messages[1].role = "user"
    /\ messages[2].role = "assistant"
    /\ Len(performance_metrics) = 1

\* C3: a start_crew_session call that returns appends exactly one session row:
\* its id is the id returned and no id of a row persisted before, its status
\* is active and its configuration holds the agent list as passed. (So n
\* returning calls, retries included, leave n rows of n ids.)
C3_SessionPerStart ==
    [][last'.op = "start_crew_session" /\ last'.raised = None =>
        LET row == agent_sessions'[Len(agent_sessions) + 1]
        IN  /\ Extends(agent_sessions', agent_sessions, 1)
            /\ last'.ret = Some(row.id)
            /\ row.id \notin Ids(agent_sessions)
            /\ row.status = "active"
            /\ DictGet(row.configuration, AgentsKey).val = last'.args.agents
    ]_vars

\* the same crew has been started twice and both calls returned
C3_StartedAgain ==
    /\ last.op = "start_crew_session"
    /\ last.raised = None
    /\ Len(agent_sessions) = 2
    /\ agent_sessions[1].agent_name = agent_sessions[2].agent_name
    /\ agent_sessions[1].id # agent_sessions[2].id

\* C4: a start_crew_session call that returns has written exactly one event,
\* of type info and with the returned session id, as the last of its three
\* effects: behind the session row and behind the tracking entry. A call that
\* does not return has written no event, and one that got as far as writing
\* the event has the row persisted and the entry recorded.
C4_OneInfoEventLast ==
    [][last'.op = "start_crew_session" =>
        LET n == Len(system_events)
        IN  /\ last'.raised = None =>
                  /\ Extends(system_events', system_events, 1)
                  /\ system_events'[n + 1].event_type = "info"
                  /\ system_events'[n + 1].session_id = last'.ret
                  /\ last'.effects = <<"create_session", "track", "add_event">>
            /\ last'.raised # None => system_events' = system_events
            /\ Len(last'.effects) >= 2 =>
                  /\ Extends(agent_sessions', agent_sessions, 1)
                  /\ \E i \in 1..Len(active_sessions') :
                        active_sessions'[i].value
                            = agent_sessions'[Len(agent_sessions')].id
    ]_vars

\* a start has returned and its event is the one event there is
C4_Started ==
    /\ last.op = "start_crew_session"
    /\ last.raised = None
    /\ Len(system_events) = 1
    /\ system_events[1].event_type = "info"
    /\ system_events[1].session_id = last.ret
    /\ active_sessions # <<>>

\* C5, as the specification states it: log_agent_interaction, log_error and
\* end_crew_session, called with a crew name start_crew_session was never
\* called with, write no row, change neither tracking dict and raise nothing.
C5_UnstartedIsNoOp ==
    [][last'.op \in {"log_agent_interaction", "log_error", "end_crew_session"}
          /\ last'.crew_name \notin started =>
        /\ UNCHANGED <<store, tracking>>
        /\ last'.raised = None
    ]_vars

\* C6, as the specification states it: when end_crew_session(c) completes for
\* a crew c that was started, no tracking entry keyed for c is left.
C6_EndRemovesEntry ==
    [][last'.op = "end_crew_session" /\ last'.resolved # None
          /\ last'.raised = None /\ last'.crew_name \in started =>
        \A i \in 1..Len(active_sessions') :
            \A t \in (clock' - MaxTicks)..clock' :
                active_sessions'[i].key # CrewId(last'.crew_name, t)
    ]_vars

\* C7, as the specification states it: log_error returns normally, whatever
\* the state and whether or not the event can be written.
C7_LogErrorNeverRaises ==
    last.op = "log_error" => last.raised = None

\* C8, as the specification states it: when the monitored body fails with an
\* exception e, log_error is called exactly once and e itself leaves the
\* helper, in every state of the observer and of the store.
C8_ReraisesOriginal ==
    last.op = "monitor_crewai_task" /\ last.args # None
          /\ last.args[1].is_exception =>
        /\ Cardinality({i \in 1..Len(last.effects) : last.effects[i] = "log_error"}) = 1
        /\ last.raised = Some(last.args[1].exc)

\* the texts the calls are given
CallerTexts == Texts \cup TaskTexts \cup CrewNames \cup AgentNames \cup {<<>>}

\* what the sanitization functions make of them
Sanitized ==
    {_sanitize_ehr_content(t) : t \in CallerTexts}
        \cup {_sanitize_task_description(t) : t \in CallerTexts}

\* C9, as the specification states it, for the assistant's message, the
\* summary of a completion event and the stack trace of an error event: each
\* is the output of a sanitization function for a text the caller gave.
C9_OnlySanitizedText ==
    /\ \A i \in 1..Len(messages) :
          messages[i].role = "assistant" => messages[i].content \in Sanitized
    /\ \A i \in 1..Len(system_events) :
          /\ "summary" \in DOMAIN system_events[i].details =>
                system_events[i].details.summary \in Sanitized
          /\ system_events[i].stack_trace # None =>
                system_events[i].stack_trace[1] \in Sanitized

\* the table a creating call of the storage layer inserts into
TableOf(op) ==
    CASE op = "create_session" -> agent_sessions
      [] op = "create_conversation" -> conversations
      [] op = "add_message" -> messages
      [] op = "add_metrics" -> performance_metrics
      [] op = "add_event" -> system_events

Creating ==
    {"create_session", "create_conversation", "add_message", "add_metrics",
     "add_event"}

\* C11: create_session, create_conversation, add_message, add_metrics and
\* add_event, called with an id the target table holds already, end with an
\* exception and return nothing, and every table is left as it was: the row
\* of that id keeps its field values.
C11_DuplicateIdFails ==
    [][last'.op \in Creating /\ last'.arg.id \in Ids(TableOf(last'.op)) =>
        /\ last'.raised # ""
        /\ last'.ret = None
        /\ UNCHANGED store
    ]_vars

\* a session of a persisted id and another status was refused by the
\* available store
C11_Refused ==
    /\ last.op = "create_session"
    /\ last.avail
    /\ last.raised = "IntegrityError"
    /\ Len(agent_sessions) = 1
    /\ agent_sessions[1].id = last.arg.id
    /\ agent_sessions[1].status # last.arg.status

\* C12, as the specification states it: get_session(id), the store being
\* available, raises nothing; it returns the session x that create_session
\* was given for that id, equal to x in every field, and it returns None for
\* an id no row has.
C12_RoundTrip ==
    [][last'.op = "get_session" /\ last'.avail =>
        /\ last'.raised = ""
        /\ \A x \in created : x.id = last'.arg => last'.ret = Some(x)
        /\ last'.arg \notin Ids(agent_sessions) => last'.ret = None
    ]_vars

\* C13: in every state of the store, get_active_sessions, the store being
\* available, raises nothing and returns the persisted sessions of status
\* active, each of them once, and no session of another status.
C13_ExactlyActive ==
    [][last'.op = "get_active_sessions" /\ last'.avail =>
        /\ last'.raised = ""
        /\ last'.ret # None
        /\ LET sessions == last'.ret[1]
               active == {i \in 1..Len(agent_sessions) :
                             agent_sessions[i].status = "active"}
           IN  /\ Len(sessions) = Cardinality(active)
               /\ \A i \in active : \E j \in 1..Len(sessions) :
                      /\ sessions[j].id = agent_sessions[i].id
                      /\ sessions[j].agent_name = agent_sessions[i].agent_name
                      /\ sessions[j].metadata = agent_sessions[i].metadata
               /\ \A j \in 1..Len(sessions) : sessions[j].status = "active"
    ]_vars

\* an active session was returned and a persisted offline one was not
C13_OneOfTwo ==
    /\ last.op = "get_active_sessions"
    /\ last.raised = ""
    /\ Len(agent_sessions) = 2
    /\ \E i \in 1..2 : agent_sessions[i].status = "offline"
    /\ Len(last.ret[1]) = 1
    /\ last.ret[1][1].status = "active"

\* the metrics rows a summary of session_id is about
Matching(session_id) ==
    IF session_id = None THEN performance_metrics
    ELSE SelectSeq(performance_metrics, LAMBDA row : row.session_id = session_id[1])

RECURSIVE SumOf(_, _)
SumOf(rows, field) ==
    IF rows = <<>> THEN 0 ELSE rows[1][field] + SumOf(Tail(rows), field)

\* C14, as the specification states it: get_metrics_summary(session_id), the
\* store being available, raises nothing and aggregates the metrics rows whose
\* session_id is the one given, all rows when none is given: total_requests
\* is their number, 0 when there is none, and the token totals are their sums
\* (the call leaves the rows as they are, so the state behind it shows them).
C14_AggregatesMatchingRows ==
    last.op = "get_metrics_summary" /\ last.avail =>
        /\ last.raised = ""
        /\ last.ret # None
        /\ last.ret[1].total_requests = Len(Matching(last.arg))
        /\ Matching(last.arg) # <<>> =>
              /\ last.ret[1].total_input_tokens
                    = Some(SumOf(Matching(last.arg), "token_count_input"))
              /\ last.ret[1].total_output_tokens
                    = Some(SumOf(Matching(last.arg), "token_count_output"))

\* C15: get_recent_events(limit), for a limit that is a number of events (0
\* or more) and the store being available, raises nothing and returns at most
\* limit events, a more recent one before an older one; every event it leaves
\* out is no more recent than any it returns; of a store without events it
\* returns the empty sequence (the call leaves the rows as they are, so the
\* state behind it shows them).
C15_RecentFirst ==
    last.op = "get_recent_events" /\ last.avail /\ last.arg >= 0 =>
        /\ last.raised = ""
        /\ last.ret # None
        /\ LET events == last.ret[1]
               returned == {events[i].id : i \in 1..Len(events)}
           IN  /\ Len(events) <= last.arg
               /\ \A i, j \in 1..Len(events) :
                      i < j => events[i].timestamp >= events[j].timestamp
               /\ \A m \in 1..Len(system_events) :
                      system_events[m].id \notin returned =>
                          \A i \in 1..Len(events) :
                              fromisoformat(system_events[m].timestamp)
                                  <= events[i].timestamp
               /\ system_events = <<>> => events = <<>>

\* two events came back, the one persisted last first
C15_Reversed ==
    /\ last.op = "get_recent_events"
    /\ last.raised = ""
    /\ last.arg = 2
    /\ Len(system_events) = 2
    /\ Len(last.ret[1]) = 2
    /\ last.ret[1][1].id = system_events[2].id
    /\ last.ret[1][1].timestamp > last.ret[1][2].timestamp

\* the rows of table before are the first rows of table after, field by field
KeepsRows(before, after) ==
    /\ Len(before) <= Len(after)
    /\ \A i \in 1..Len(before) : after[i] = before[i]

\* C16: the store is append-only under every sequence of calls of the storage
\* layer and of the observer: a step deletes no row of the sessions, the
\* conversations, the messages, the metrics or the events and changes no field
\* of one; the rows it adds come after those there were.
C16_AppendOnly ==
    [][/\ KeepsRows(agent_sessions, agent_sessions')
       /\ KeepsRows(conversations, conversations')
       /\ KeepsRows(messages, messages')
       /\ KeepsRows(performance_metrics, performance_metrics')
       /\ KeepsRows(system_events, system_events')]_vars

\* a session was ended by the observer: its row is the one persisted at the
\* start, still active and without an end time, and the event came after the
\* start's
C16_EndedRowKept ==
    /\ last.op = "end_crew_session"
    /\ last.raised = None
    /\ last.resolved # None
    /\ Len(agent_sessions) = 1
    /\ agent_sessions[1].id = last.resolved[1]
    /\ agent_sessions[1].status = "active"
    /\ agent_sessions[1].end_time = None
    /\ Len(system_events) = 2

\* three digits, "-", two digits, "-", four digits somewhere in s
HasSSNShape(s) ==
    \E i \in 1..Len(s) :
        /\ AllIn(s, i, i + 2, Digits)
        /\ CharAt(s, i + 3, "-")
        /\ AllIn(s, i + 4, i + 5, Digits)
        /\ CharAt(s, i + 6, "-")
        /\ AllIn(s, i + 7, i + 10, Digits)

\* a local part, "@", a domain, "." and two letters somewhere in s
HasEmailShape(s) ==
    \E i \in 2..Len(s) :
        /\ s[i] = "@"
        /\ s[i - 1] \in EmailLocal
        /\ \E d \in 1..(Len(s) - i) :
               /\ AllIn(s, i + 1, i + d, EmailDomain)
               /\ CharAt(s, i + d + 1, ".")
               /\ AllIn(s, i + d + 2, i + d + 3, UpperCase \cup LowerCase)

\* C17: whatever the text, what _sanitize_ehr_content returns holds no
\* substring of three digits, "-", two digits, "-", four digits and no
\* substring shaped as an e-mail address.
C17_NoSSNOrEmailShape ==
    last.op = "_sanitize_ehr_content" =>
        /\ ~HasSSNShape(last.ret[1])
        /\ ~HasEmailShape(last.ret[1])

\* C18: what _sanitize_ehr_content returns is at most 500 + 14 characters
\* long; it is the redacted text cut to 500 characters and followed by
\* "...[TRUNCATED]" when the redacted text is longer than 500 characters, and
\* the redacted text itself when it is not. What _sanitize_task_description
\* returns is at most 200 characters long and is the beginning of what
\* _sanitize_ehr_content returns, nothing being added where it is cut.
C18_LengthCaps ==
    /\ last.op = "_sanitize_ehr_content" =>
          LET out == last.ret[1]
              redacted == Redact(last.arg)
          IN  /\ Len(out) <= 500 + 14
              /\ Len(redacted) > 500 =>
                    out = SubSeq(redacted, 1, 500) \o TruncatedMarker
              /\ Len(redacted) <= 500 => out = redacted
    /\ last.op = "_sanitize_task_description" =>
          LET out == last.ret[1]
              sanitized == _sanitize_ehr_content(last.arg)
          IN  /\ Len(out) <= 200
              /\ Len(out) = IF Len(sanitized) < 200 THEN Len(sanitized) ELSE 200
              /\ out = SubSeq(sanitized, 1, Len(out))

\* a text of at most 500 characters whose redacted text has 501: the marker
\* follows the first 500
C18_CutAfterRedaction ==
    /\ last.op = "_sanitize_ehr_content"
    /\ Len(last.arg) <= 500
    /\ Len(Redact(last.arg)) = 501
    /\ Len(last.ret[1]) = 514
    /\ SubSeq(last.ret[1], 501, 514) = TruncatedMarker

\* the category of the k-th pair of TaskWords: the pairs stand in the order
\* of the priority, the last word being of no category
CategoryOfRank(k) ==
    <<"ANALYSIS", "EXTRACTION", "SUMMARIZATION", "VALIDATION", "GENERAL">>[k]

\* C19: _classify_task returns one of ANALYSIS, EXTRACTION, SUMMARIZATION,
\* VALIDATION and GENERAL for every description. A description of two words
\* gets the category of the word of the higher priority (analyze/review over
\* extract/parse over summarize/summary over validate/check over none),
\* whatever the case of the letters and whichever of the two comes first;
\* "Analyze extracted data" gets ANALYSIS and the empty description GENERAL.
C19_HighestPriorityCategory ==
    last.op = "_classify_task" =>
        /\ last.ret[1] \in {"ANALYSIS", "EXTRACTION", "SUMMARIZATION",
                            "VALIDATION", "GENERAL"}
        /\ \A i, j \in 1..Len(TaskWords) :
               last.arg = TaskWords[i] \o <<" ">> \o TaskWords[j] =>
                   last.ret[1] = CategoryOfRank(IF i < j THEN (i + 1) \div 2
                                                ELSE (j + 1) \div 2)
        /\ last.arg = <<"A", "n", "a", "l", "y", "z", "e", " ", "e", "x", "t", "r", "a", "c", "t", "e", "d", " ", "d", "a", "t", "a">> =>
               last.ret[1] = "ANALYSIS"
        /\ last.arg = <<>> => last.ret[1] = "GENERAL"

\* a description with a keyword of the third category in front of one of the
\* first, in upper and lower case: ANALYSIS
C19_LaterKeywordWins ==
    /\ last.op = "_classify_task"
    /\ last.arg = TaskWords[6] \o <<" ">> \o TaskWords[2]
    /\ last.ret = Some("ANALYSIS")

\* C20: _sanitize_metadata returns a dict of the keys of its argument, in
\* their order. A key that is patient_id, ssn, name, email or phone in any
\* case of the letters (SSN, patient_id and Name among the keys drawn) has
\* the value "[REDACTED]" whatever its value was; under any other key a text
\* has become what _sanitize_ehr_content makes of it and a value of another
\* type, a list holding sensitive text included, is the value it was.
C20_MetadataSanitized ==
    last.op = "_sanitize_metadata" =>
        LET metadata == last.arg
            safe == last.ret[1]
        IN  /\ Len(safe) = Len(metadata)
            /\ \A i \in 1..Len(metadata) :
                   /\ safe[i].key = metadata[i].key
                   /\ safe[i].value =
                         IF metadata[i].key \in {<<"S", "S", "N">>,
                                                 <<"p", "a", "t", "i", "e", "n", "t", "_", "i", "d">>,
                                                 <<"N", "a", "m", "e">>}
                         THEN Str(Redacted)
                         ELSE IF metadata[i].value.type = "str"
                         THEN Str(_sanitize_ehr_content(metadata[i].value.val))
                         ELSE metadata[i].value

\* a dict with an upper-case denylisted key holding a number and another key
\* holding a list with an SSN in it: the first is redacted, the second kept
C20_RedactedAndPassedThrough ==
    /\ last.op = "_sanitize_metadata"
    /\ Len(last.arg) = 2
    /\ last.arg[1] = [key |-> <<"S", "S", "N">>, value |-> [type |-> "int", val |-> <<"7">>]]
    /\ last.arg[2].key = <<"n", "o", "t", "e">>
    /\ last.arg[2].value = [type |-> "list", val |-> <<WithSSN>>]
    /\ last.ret[1][1].value = Str(Redacted)
    /\ last.ret[1][2] = last.arg[2]

\* C21: end_crew_session, for a crew name that resolves to a session, writes
\* no status back, with success true or false: the session rows, the
\* conversations, the messages and the metrics are as they were, the row of
\* the session is still active and without an end time, and
\* get_active_sessions still returns that session. A call that completes has
\* added one event, of type info when success is true and error when it is
\* not, with the session's id; a call that does not complete has added none.
C21_EndLeavesSessionActive ==
    [][last'.op = "end_crew_session" /\ last'.resolved # None =>
        LET s == last'.resolved[1]
            n == Len(system_events)
            active == get_active_sessions(Db', TRUE).ret[1]
        IN  /\ UNCHANGED <<agent_sessions, conversations, messages,
                           performance_metrics>>
            /\ \E i \in 1..Len(agent_sessions') :
                  /\ agent_sessions'[i].id = s
                  /\ agent_sessions'[i].status = "active"
                  /\ agent_sessions'[i].end_time = None
            /\ \E j \in 1..Len(active) : active[j].id = s
            /\ last'.raised = None =>
                  /\ Extends(system_events', system_events, 1)
                  /\ system_events'[n + 1].session_id = Some(s)
                  /\ system_events'[n + 1].event_type
                        = IF last'.args.success THEN "info" ELSE "error"
            /\ last'.raised # None => system_events' = system_events
    ]_vars

\* a session was ended as failed: the error event is written and the session
\* is among the active ones
C21_FailedStillActive ==
    /\ last.op = "end_crew_session"
    /\ last.raised = None
    /\ last.resolved # None
    /\ ~last.args.success
    /\ system_events[Len(system_events)].event_type = "error"
    /\ system_events[Len(system_events)].session_id = last.resolved
    /\ \E j \in 1..Len(get_active_sessions(Db, TRUE).ret[1]) :
          get_active_sessions(Db, TRUE).ret[1][j].id = last.resolved[1]

\* the entry is in the dict, under its key and with its value
Holds(dict, entry) == \E j \in 1..Len(dict) : dict[j] = entry

\* C22, as the specification states it: a call other than end_crew_session
\* leaves every entry of both tracking dicts in place, under its key and with
\* its value; end_crew_session(c) takes from active_sessions no entry but that
\* of the session it ends, and from conversation_contexts no entry but those
\* of that session.
C22_TrackingOnlyGrows ==
    [][/\ \A i \in 1..Len(active_sessions) :
              \/ Holds(active_sessions', active_sessions[i])
              \/ /\ last'.op = "end_crew_session"
                 /\ last'.resolved = Some(active_sessions[i].value)
       /\ \A i \in 1..Len(conversation_contexts) :
              \/ Holds(conversation_contexts', conversation_contexts[i])
              \/ /\ last'.op = "end_crew_session"
                 /\ last'.resolved # None
                 /\ conversation_contexts[i].key[1] = last'.resolved[1]
    ]_vars

\* how many rows of the table are of conversation c and, among messages, of
\* the role given
MessagesOf(rows, c, role) ==
    Cardinality({i \in 1..Len(rows) :
                    rows[i].conversation_id = c /\ rows[i].role = role})

MetricsOfConversation(rows, c) ==
    Cardinality({i \in 1..Len(rows) : rows[i].conversation_id = Some(c)})

\* how many of the writes a call completed were of the kind given
Completed(effects, do) ==
    Cardinality({i \in 1..Len(effects) : effects[i] = do})

\* C23: a log_agent_interaction call that is left by an exception of the
\* storage layer keeps the rows of the writes it completed and has none of
\* the later ones: each table is what it was with the rows of the completed
\* writes behind. So after every step each conversation has at most as many
\* metrics rows as assistant messages and at most as many assistant messages
\* as user messages, and as many of each while no write has failed.
C23_NoRollback ==
    [][/\ last'.op = "log_agent_interaction" /\ last'.raised # None =>
              /\ Extends(conversations', conversations,
                         Completed(last'.effects, "create_conversation"))
              /\ Extends(messages', messages,
                         Completed(last'.effects, "add_message"))
              /\ performance_metrics' = performance_metrics
              /\ Completed(last'.effects, "add_metrics") = 0
       /\ \A i \in 1..Len(conversations') :
              LET c == conversations'[i].id
                  metrics == MetricsOfConversation(performance_metrics', c)
                  answers == MessagesOf(messages', c, "assistant")
                  asked == MessagesOf(messages', c, "user")
              IN  /\ metrics <= answers
                  /\ answers <= asked
                  /\ failures' = 0 => metrics = answers /\ answers = asked
    ]_vars

\* an interaction failed at its second message: the conversation and the
\* user's message are persisted, the answer and the metrics are not
C23_HalfWritten ==
    /\ last.op = "log_agent_interaction"
    /\ last.raised # None
    /\ last.effects = <<"create_conversation", "remember", "add_message">>
    /\ Len(conversations) = 1
    /\ MessagesOf(messages, conversations[1].id, "user") = 1
    /\ MessagesOf(messages, conversations[1].id, "assistant") = 0
    /\ performance_metrics = <<>>

\* C24: when two start_crew_session calls for one crew name that read the
\* same second have both returned, in whatever order their statements were
\* taken, the two session ids differ and both session rows are persisted as
\* active; active_sessions holds one entry under the key of that name and
\* second, with the id of the session written to the dict last; and the other
\* id is the value of no entry, so that no crew name resolves to it.
C24_SameSecondCollision ==
    LET a == threads.of[1]
        b == threads.of[2]
    IN  /\ threads.of # <<>>
        /\ a.pc = 4
        /\ b.pc = 4
        /\ a.start.crew_name = b.start.crew_name
        /\ a.now = b.now
        => LET key == CrewId(a.start.crew_name, a.now)
               first == threads.of[threads.tracked[1]].session_id
               second == threads.of[threads.tracked[2]].session_id
           IN  /\ first # second
               /\ \A id \in {first, second} :
                      \E i \in 1..Len(agent_sessions) :
                          /\ agent_sessions[i].id = id
                          /\ agent_sessions[i].status = "active"
               /\ Cardinality({i \in 1..Len(active_sessions) :
                                  active_sessions[i].key = key}) = 1
               /\ DictGet(active_sessions, key) = second
               /\ \A i \in 1..Len(active_sessions) :
                      active_sessions[i].value # first
               /\ \A c \in CrewNames :
                      _get_session_id(active_sessions, c) # Some(first)

\* both threads have returned for one crew name and one second; the thread
\* whose session row was persisted first wrote to the dict last
C24_Interleaved ==
    /\ threads.of # <<>>
    /\ threads.of[1].pc = 4
    /\ threads.of[2].pc = 4
    /\ threads.of[1].start.crew_name = threads.of[2].start.crew_name
    /\ threads.of[1].now = threads.of[2].now
    /\ agent_sessions[1].id = threads.of[1].session_id
    /\ threads.tracked = <<2, 1>>
    /\ Len(active_sessions) = 1
    /\ active_sessions[1].value = threads.of[1].session_id

\* the session of this id was started by start_crew_session for crew name c
StartedFor(c, id) ==
    \E i \in 1..Len(agent_sessions) :
        /\ agent_sessions[i].id = id
        /\ agent_sessions[i].agent_name = <<"C", "r", "e", "w", "A", "I", ":", " ">> \o c

\* C25, as the specification states it: every row that log_agent_interaction,
\* log_error or end_crew_session writes when called with crew name c
\* references a session that start_crew_session started for the name c itself:
\* the conversations, the metrics and the events by their session_id, the
\* messages by the session of their conversation.
C25_OnlyOwnCrewSession ==
    [][last'.op \in {"log_agent_interaction", "log_error", "end_crew_session"} =>
        LET c == last'.crew_name
        IN  /\ \A i \in (Len(conversations) + 1)..Len(conversations') :
                   StartedFor(c, conversations'[i].session_id)
            /\ \A i \in (Len(performance_metrics) + 1)..Len(performance_metrics') :
                   StartedFor(c, performance_metrics'[i].session_id)
            /\ \A i \in (Len(system_events) + 1)..Len(system_events') :
                   /\ system_events'[i].session_id # None
                   /\ StartedFor(c, system_events'[i].session_id[1])
            /\ \A i \in (Len(messages) + 1)..Len(messages') :
                   \E j \in 1..Len(conversations') :
                       /\ conversations'[j].id = messages'[i].conversation_id
                       /\ StartedFor(c, conversations'[j].session_id)
    ]_vars

\* C26, as the claim states it: when end_crew_session(c) completes for a crew
\* name that resolves to a session, every tracking entry it deletes is the
\* entry of the session whose id it wrote in the completion event.
C26_DeletesTheSessionEnded ==
    [][last'.op = "end_crew_session" /\ last'.resolved # None
          /\ last'.raised = None =>
        \A i \in 1..Len(active_sessions) :
            ~Holds(active_sessions', active_sessions[i]) =>
                system_events'[Len(system_events')].session_id
                    = Some(active_sessions[i].value)
    ]_vars

\* the events of the kind given (started, completed) written for crew name c
EventsFor(prefix, c) ==
    {i \in 1..Len(system_events) : system_events[i].message = prefix \o c}

\* the session id the last start_crew_session(c) returned, when no
\* end_crew_session(c) has completed since (each of the two writes its event
\* as its last storage call); None when there is none
Current(c) ==
    LET starts == EventsFor(<<"S", "t", "a", "r", "t", "e", "d", " ", "C", "r", "e", "w", "A", "I", " ", "s", "e", "s", "s", "i", "o", "n", ":", " ">>, c)
        ends == EventsFor(<<"C", "o", "m", "p", "l", "e", "t", "e", "d", " ", "C", "r", "e", "w", "A", "I", " ", "s", "e", "s", "s", "i", "o", "n", ":", " ">>, c)
        newest == CHOOSE k \in starts : \A m \in starts : m <= k
    IN  IF starts = {} \/ \E e \in ends : e > newest THEN None
        ELSE system_events[newest].session_id

\* C27, as the specification states it, for runs without a storage failure:
\* when start_crew_session(c) has returned s and neither it nor
\* end_crew_session(c) was called since, the rows log_agent_interaction(c)
\* and log_error(c) write are of session s.
C27_NewestSession ==
    [][last'.op \in {"log_agent_interaction", "log_error"} /\ failures' = 0
          /\ Current(last'.crew_name) # None =>
        LET s == Current(last'.crew_name)[1]
        IN  /\ \A i \in (Len(conversations) + 1)..Len(conversations') :
                   conversations'[i].session_id = s
            /\ \A i \in (Len(performance_metrics) + 1)..Len(performance_metrics') :
                   performance_metrics'[i].session_id = s
            /\ \A i \in (Len(system_events) + 1)..Len(system_events') :
                   system_events'[i].session_id = Some(s)
            /\ \A i \in (Len(messages) + 1)..Len(messages') :
                   \E j \in 1..Len(conversations') :
                       /\ conversations'[j].id = messages'[i].conversation_id
                       /\ conversations'[j].session_id = s
    ]_vars

\* C28, as the claim states it: a start_crew_session call that is left by an
\* exception leaves the store and both tracking dicts as they were.
C28_FailedStartChangesNothing ==
    [][last'.op = "start_crew_session" /\ last'.raised # None =>
        UNCHANGED <<store, tracking>>
    ]_vars

\* C28: a start_crew_session call that is left by an exception at its session
\* write leaves the store and both tracking dicts as they were. One that is
\* left by an exception at its event write has done its two earlier effects
\* and nothing else: the session row is persisted as active and its id is
\* recorded under the key of the crew name and the second of the call, while
\* no event is written and no id is returned; nothing is rolled back.
C28_FailedStartKeepsWrites ==
    [][last'.op = "start_crew_session" /\ last'.raised # None =>
        /\ last'.ret = None
        /\ UNCHANGED <<conversations, messages, performance_metrics,
                       system_events, conversation_contexts>>
        /\ \/ /\ last'.effects = <<>>
              /\ UNCHANGED <<agent_sessions, active_sessions>>
           \/ /\ last'.effects = <<"create_session", "track">>
              /\ Extends(agent_sessions', agent_sessions, 1)
              /\ agent_sessions'[Len(agent_sessions')].status = "active"
              /\ agent_sessions'[Len(agent_sessions')].id \notin Ids(agent_sessions)
              /\ active_sessions'
                    = DictSet(active_sessions, CrewId(last'.crew_name, clock'),
                              agent_sessions'[Len(agent_sessions')].id)
    ]_vars

\* a start failed at its event: its session is persisted and tracked, no
\* event tells of it
C28_TrackedButNotReturned ==
    /\ last.op = "start_crew_session"
    /\ last.raised # None
    /\ last.ret = None
    /\ Len(agent_sessions) = 1
    /\ Len(active_sessions) = 1
    /\ active_sessions[1].value = agent_sessions[1].id
    /\ system_events = <<>>

\* C29: in every state the observer's calls reach, with or without storage
\* failures, every conversation is of a persisted session, every message of a
\* persisted conversation, every metrics row of a persisted session and of a
\* persisted conversation of that same session, and every event of a
\* persisted session.
C29_ReferencesPersisted ==
    /\ \A i \in 1..Len(conversations) :
           conversations[i].session_id \in Ids(agent_sessions)
    /\ \A i \in 1..Len(messages) :
           messages[i].conversation_id \in Ids(conversations)
    /\ \A i \in 1..Len(performance_metrics) :
           /\ performance_metrics[i].session_id \in Ids(agent_sessions)
           /\ performance_metrics[i].conversation_id # None
           /\ \E j \in 1..Len(conversations) :
                  /\ Some(conversations[j].id) = performance_metrics[i].conversation_id
                  /\ conversations[j].session_id = performance_metrics[i].session_id
    /\ \A i \in 1..Len(system_events) :
           /\ system_events[i].session_id # None
           /\ system_events[i].session_id[1] \in Ids(agent_sessions)

\* rows of all five tables are there, and a storage failure has happened
C29_AllTablesAfterFailure ==
    /\ failures > 0
    /\ agent_sessions # <<>>
    /\ conversations # <<>>
    /\ messages # <<>>
    /\ performance_metrics # <<>>
    /\ system_events # <<>>

\* C30: in every state the observer's calls reach, each entry of
\* conversation_contexts, for session s, agent a and category k, has the id
\* of a persisted conversation whose session_id is s and whose context
\* records a and k (so an entry is there only once its row is); no two
\* entries have the same conversation id; and no two conversation rows are of
\* the same session, agent and category.
C30_MapMatchesStore ==
    /\ \A e \in 1..Len(conversation_contexts) :
           \E i \in 1..Len(conversations) :
               /\ conversations[i].id = conversation_contexts[e].value
               /\ conversations[i].session_id = conversation_contexts[e].key[1]
               /\ conversations[i].context.agent = conversation_contexts[e].key[2]
               /\ conversations[i].context.task_category
                     = conversation_contexts[e].key[3]
    /\ \A e, f \in 1..Len(conversation_contexts) :
           e # f =>
               /\ conversation_contexts[e].key # conversation_contexts[f].key
               /\ conversation_contexts[e].value # conversation_contexts[f].value
    /\ \A i, j \in 1..Len(conversations) :
           i # j =>
               \/ conversations[i].session_id # conversations[j].session_id
               \/ conversations[i].context.agent # conversations[j].context.agent
               \/ conversations[i].context.task_category
                     # conversations[j].context.task_category

\* two conversations of one session are remembered, and a storage failure
\* has happened
C30_TwoRemembered ==
    /\ failures > 0
    /\ Len(conversation_contexts) = 2
    /\ Len(conversations) = 2
    /\ conversations[1].session_id = conversations[2].session_id
    /\ conversation_contexts[1].value # conversation_contexts[2].value

\* C10: a call of the storage layer made while the store is unavailable ends
\* with an exception for its caller, returns nothing and leaves every table
\* as it was.
C10_UnavailableIsAnError ==
    [][~last'.avail =>
        /\ last'.raised # ""
        /\ last'.ret = None
        /\ UNCHANGED store
    ]_vars

\* a write was refused by the unavailable store, rows being persisted already
C10_Refused ==
    /\ last.op = "add_event"
    /\ ~last.avail
    /\ last.raised = "OperationalError"
    /\ agent_sessions # <<>>
    /\ system_events = <<>>
====
